---- MODULE Spec2Model ----
(***************************************************************************)
(* Model of the cache-first vector similarity search of backend_py:        *)
(*   app/services/vector_search.py     VectorSearchService                 *)
(*   app/services/cache_manager.py     CacheService                        *)
(*   app/utils/redis_vector_cache.py   RedisVectorCacheManager             *)
(*   app/routes/similarity.py          vector_similarity_search            *)
(*                                                                         *)
(* Spec      : one similarity request at a time against a durable store    *)
(*             whose reachability changes between the steps of a request.  *)
(* CacheSpec : the vector / product cache operations over a Redis keyspace.*)
(***************************************************************************)
EXTENDS Integers, Sequences, FiniteSets, TLC

VARIABLES
    POSTGRES_AVAILABLE, \* vector_search.py: psycopg2 could be imported
    POSTGRES_URL,       \* the configured connection string: "" | "placeholder" | "real"
    CACHE_ENABLED,      \* environment flag CACHE_ENABLED
    storeState,         \* the durable store: "up" | "down" | "query_fails"
    store,              \* rows of products3 JOIN embeddings3: pos -> fill of the embedding
    instance,           \* CacheService._instance: "none" | "manager"
    mgrConn,            \* RedisVectorCacheManager.postgres_conn: "none" | "open"
    svc,                \* the request's VectorSearchService: cache_manager, postgres_conn
    pc,                 \* position of the request handler
    req,                \* the request: query_vector, limit, use_cache
    source,             \* local variable source of search_similar_products
    outcome,            \* the dictionary search_similar_products returned
    http,               \* HTTP status of the last response: 0 while none
    trace,              \* what this request did: cache attempt, fallback calls, queries
    redis,              \* the Redis keyspace: key -> entry
    redisUp,            \* the Redis backend answers
    ret,                \* the last cache operation and what it returned
    lastWrite           \* per key, the value of the last successful cache write still in force

vars == <<POSTGRES_AVAILABLE, POSTGRES_URL, CACHE_ENABLED, storeState, store,
          instance, mgrConn, svc, pc, req, source, outcome, http, trace,
          redis, redisUp, ret, lastWrite>>

envVars == <<POSTGRES_AVAILABLE, POSTGRES_URL, CACHE_ENABLED>>
cacheVars == <<redis, redisUp, ret, lastWrite>>
searchVars == <<storeState, store, instance, mgrConn, svc, pc, req, source,
                outcome, http, trace>>

-----------------------------------------------------------------------------
(* Bounds and program constants *)

MaxPos == 2
MaxFill == 1
MaxLimit == 2
MaxCachePos == 1
MaxComp == 1
ShortTTL == 60
TickLen == 900
MaxIds == 3
MaxBatch == 2
MaxPerCat == 3
MaxPrice == 3
MaxShown == 3
MaxCalls == 3
MaxK == 2

\* the embedding dimension both layers insist on
VectorDim == 1024
\* sqrt(VectorDim): the L2 distance of two constant vectors is this times |c - d|
VectorDimRoot == 32
\* Query(10, ge=1, le=100)
LimitMax == 100
\* CACHE_DEFAULT_TTL
DefaultTTL == 1800

Positions == 1..MaxPos
Fills == 0..MaxFill
CachePositions == 1..MaxCachePos
Comps == -MaxComp..MaxComp

Abs(x) == IF x < 0 THEN -x ELSE x
Min(a, b) == IF a < b THEN a ELSE b

\* the vector of n components c, -c, c, ...
PatternVector(n, c) == [i \in 1..n |-> IF i % 2 = 1 THEN c ELSE -c]

\* a query vector, held as its length and the value of its components: the
\* search only takes its length and hands it to the store's distance operator
QueryVector(n, c) == [len |-> n, fill |-> c]

-----------------------------------------------------------------------------
(* The durable store *)

\* e.dense_vector <-> %s::vector : the store's L2 distance, on constant vectors
Distance(q, fill) == VectorDimRoot * Abs(q.fill - fill)

\* every table the store may hold: some positions, each with an embedding
StoreTables == UNION {[P -> Fills] : P \in SUBSET Positions}

\* seq is an answer ORDER BY distance LIMIT limit over table t: no position
\* twice, ascending distance, as many rows as the table and the limit allow,
\* and no row left out that is nearer than a row taken.  Rows at equal
\* distance come in whatever order the store picks.
IsNearest(seq, t, q, limit) ==
    /\ Len(seq) = Min(limit, Cardinality(DOMAIN t))
    /\ \A i \in 1..Len(seq) : seq[i] \in DOMAIN t
    /\ \A i, j \in 1..Len(seq) : i < j =>
          /\ seq[i] # seq[j]
          /\ Distance(q, t[seq[i]]) <= Distance(q, t[seq[j]])
    /\ \A p \in DOMAIN t : (\A i \in 1..Len(seq) : seq[i] # p) =>
          \A i \in 1..Len(seq) : Distance(q, t[seq[i]]) <= Distance(q, t[p])

PosSeqs(limit) == UNION {[1..n -> Positions] : n \in 0..Min(limit, MaxPos)}

\* cur.fetchall() after the distance query: the answers the store may give
StoreAnswers(t, q, limit) == {s \in PosSeqs(limit) : IsNearest(s, t, q, limit)}

\* (a slip: the distance is handed out as the similarity)
FormatRowsDistance(rows, t, q) ==
    [i \in 1..Len(rows) |-> [pos |-> rows[i], similarity |-> Distance(q, t[rows[i]])]]

\* the result formatting loop: similarity = 1 - distance, distance dropped
FormatRows(rows, t, q) ==
    [i \in 1..Len(rows) |-> [pos |-> rows[i], similarity |-> 1 - Distance(q, t[rows[i]])]]

-----------------------------------------------------------------------------
(* CacheService *)

\* RedisVectorCacheManager.connect_postgres reaches the store: psycopg2.connect
\* on the configured string.  Only a real connection string names a store; the
\* empty string and the example placeholder name none, and connecting fails.
ManagerConnectOk == POSTGRES_URL = "real" /\ storeState # "down"

\* (a slip: get_instance makes a manager at every call)
GetInstanceRebuilding ==
    IF ~CACHE_ENABLED \/ ~POSTGRES_AVAILABLE
    THEN [manager |-> "none", instance |-> instance, conn |-> mgrConn, built |-> FALSE]
    ELSE IF ManagerConnectOk
         THEN [manager |-> "manager", instance |-> "manager", conn |-> "open",
               built |-> TRUE]
         ELSE [manager |-> "none", instance |-> "none", conn |-> "none", built |-> FALSE]

\* CacheService.get_instance: the manager handed out, and _instance and the
\* manager's store connection afterwards; built says that this call made the
\* manager.  Importing redis_vector_cache imports psycopg2 at module level, so
\* without psycopg2 there is no manager.
GetInstance ==
    IF ~CACHE_ENABLED \/ ~POSTGRES_AVAILABLE
    THEN [manager |-> "none", instance |-> instance, conn |-> mgrConn, built |-> FALSE]
    ELSE IF instance = "none"
         THEN IF ManagerConnectOk
              THEN [manager |-> "manager", instance |-> "manager", conn |-> "open",
                    built |-> TRUE]
              ELSE [manager |-> "none", instance |-> "none", conn |-> "none",
                    built |-> FALSE]
         ELSE [manager |-> instance, instance |-> instance, conn |-> mgrConn,
               built |-> FALSE]

\* (a slip: _instance is dropped after the disconnect, not in a finally)
CloseConnectionsKeeping(disconnect_raises) ==
    IF instance = "none" THEN [instance |-> instance, conn |-> mgrConn]
    ELSE IF disconnect_raises THEN [instance |-> instance, conn |-> mgrConn]
    ELSE [instance |-> "none", conn |-> "none"]

\* CacheService.close_connections: disconnect_postgres closes the connection
\* the manager holds; when it raises the connection stays as it is; _instance
\* is dropped either way (finally)
CloseConnectionsOn(disconnect_raises) ==
    IF instance = "none" THEN [instance |-> instance, conn |-> mgrConn]
    ELSE [instance |-> "none", conn |-> IF disconnect_raises THEN mgrConn ELSE "none"]

\* close_connections when the disconnect goes through
CloseConnections == CloseConnectionsOn(FALSE)

-----------------------------------------------------------------------------
(* VectorSearchService *)

NoOutcome ==
    [results |-> <<>>, result_count |-> 0, source |-> "none",
     has_error |-> FALSE, error |-> ""]

NoTrace ==
    [cache_calls |-> 0, cache_result |-> "none", fallback_calls |-> 0,
     connects |-> 0, store_queries |-> 0, store_seen |-> "none",
     answer |-> <<>>]

NoRequest == [query_vector |-> QueryVector(0, 0), limit |-> 0, use_cache |-> FALSE]

NoService == [cache_manager |-> "none", postgres_conn |-> "none"]

\* _connect_postgres: raises without psycopg2 and on an empty or placeholder
\* connection string before any connection attempt; connects when the service
\* holds no connection yet.
ConnectPostgres(conn) ==
    IF ~POSTGRES_AVAILABLE
    THEN [raised |-> TRUE, conn |-> conn, connects |-> 0]
    ELSE IF POSTGRES_URL \in {"", "placeholder"}
    THEN [raised |-> TRUE, conn |-> conn, connects |-> 0]
    ELSE IF conn = "none"
    THEN IF storeState # "down"
         THEN [raised |-> FALSE, conn |-> "open", connects |-> 1]
         ELSE [raised |-> TRUE, conn |-> "none", connects |-> 1]
    ELSE [raised |-> FALSE, conn |-> conn, connects |-> 0]

\* (a slip: a failure of the store is passed on to the caller instead of
\* being turned into an empty result)
DirectPostgresSearchRaising(conn, q, limit, answer) ==
    LET c == ConnectPostgres(conn) IN
    IF ~POSTGRES_AVAILABLE \/ c.raised \/ storeState # "up"
    THEN [raised |-> TRUE, results |-> <<>>, conn |-> c.conn,
          connects |-> c.connects,
          store_queries |-> IF POSTGRES_AVAILABLE /\ ~c.raised THEN 1 ELSE 0]
    ELSE [raised |-> FALSE, results |-> FormatRows(answer, store, q),
          conn |-> c.conn, connects |-> c.connects, store_queries |-> 1]

\* _direct_postgres_search: [] without psycopg2; otherwise connect, run the
\* distance query and format the rows; every exception on the way is logged
\* and answered with [].  answer is what fetchall() gives when the query runs.
\* The vector goes to the store as it is: the <-> operator of the store raises
\* on a vector that has not the dimension of the column.
DirectPostgresSearch(conn, q, limit, answer) ==
    IF ~POSTGRES_AVAILABLE
    THEN [raised |-> FALSE, results |-> <<>>, conn |-> conn,
          connects |-> 0, store_queries |-> 0]
    ELSE LET c == ConnectPostgres(conn) IN
         IF c.raised
         THEN [raised |-> FALSE, results |-> <<>>, conn |-> c.conn,
               connects |-> c.connects, store_queries |-> 0]
         ELSE IF storeState = "up" /\ q.len = VectorDim
         THEN [raised |-> FALSE, results |-> FormatRows(answer, store, q),
               conn |-> c.conn, connects |-> c.connects, store_queries |-> 1]
         ELSE [raised |-> FALSE, results |-> <<>>, conn |-> c.conn,
               connects |-> c.connects, store_queries |-> 1]

\* what cache_manager.smart_vector_search may do: raise, return nothing, or
\* return a non-empty list of results
SmartVectorSearch(q, limit) ==
    {[kind |-> "raise", results |-> <<>>], [kind |-> "results", results |-> <<>>]}
    \cup {[kind |-> "results", results |-> FormatRows(a, store, q)] :
            a \in {s \in StoreAnswers(store, q, limit) : Len(s) > 0}}

\* source = "cache" if results else "cache_miss"; "cache_error" when it raised
SourceAfterCache(r) ==
    IF r.kind = "raise" THEN "cache_error"
    ELSE IF Len(r.results) > 0 THEN "cache" ELSE "cache_miss"

\* (a slip: the suffix is put on the initial "unknown" as well)
SourceAfterStoreSuffixed(src) ==
    CASE src = "cache_error" -> "cache_error_fallback"
      [] src = "cache_miss" -> "cache_miss_fallback"
      [] OTHER -> "unknown_fallback"

\* source = "postgres" if source == "unknown" else f"{source}_fallback"
SourceAfterStore(src) ==
    CASE src = "unknown" -> "postgres"
      [] src = "cache_error" -> "cache_error_fallback"
      [] src = "cache_miss" -> "cache_miss_fallback"
      [] src = "cache" -> "cache_fallback"
      [] OTHER -> "unknown_fallback"

\* the dictionary of a search that went through
Answered(results, src) ==
    [results |-> results, result_count |-> Len(results), source |-> src,
     has_error |-> FALSE, error |-> ""]

\* the dictionary of the outer except branch
Failed(message) ==
    [results |-> <<>>, result_count |-> 0, source |-> "error",
     has_error |-> TRUE, error |-> message]

\* (a slip: the cache is asked whenever a manager is configured)
UseCacheLayerConfigured(use_cache, manager) == manager # "none"

\* if use_cache and self.cache_manager
UseCacheLayer(use_cache, manager) == use_cache /\ manager # "none"

-----------------------------------------------------------------------------
(* The similarity request: vector_similarity_search and the steps of
   search_similar_products *)

QueryLengths == {0, VectorDim - 1, VectorDim}
QueryLimits == 0..MaxLimit \cup {LimitMax + 1}

\* (a slip: the handler does not look at the length of the vector)
RouteSearchUnvalidated(n, c, limit, use_cache) ==
    /\ pc = "idle"
    /\ trace' = NoTrace
    /\ outcome' = NoOutcome
    /\ IF limit < 1 \/ limit > LimitMax
       THEN /\ http' = 422
            /\ UNCHANGED <<instance, mgrConn, svc, pc, req, source>>
       ELSE LET g == GetInstance
                use == use_cache /\ CACHE_ENABLED
            IN /\ instance' = g.instance
               /\ mgrConn' = g.conn
               /\ svc' = [cache_manager |-> g.manager, postgres_conn |-> "none"]
               /\ req' = [query_vector |-> QueryVector(n, c), limit |-> limit,
                          use_cache |-> use]
               /\ source' = "unknown"
               /\ http' = 0
               /\ pc' = IF UseCacheLayer(use, g.manager)
                        THEN "attempt_cache" ELSE "fallback_store"
    /\ UNCHANGED <<envVars, storeState, store, cacheVars>>

\* POST /similarity/search: limit outside 1..100 is refused by the parameter
\* declaration, an empty or mis-dimensioned vector by the handler; otherwise a
\* VectorSearchService is constructed (which asks CacheService for the manager)
\* and search_similar_products starts with source = "unknown".
RouteSearch(n, c, limit, use_cache) ==
    /\ pc = "idle"
    /\ trace' = NoTrace
    /\ outcome' = NoOutcome
    /\ IF limit < 1 \/ limit > LimitMax
       THEN /\ http' = 422
            /\ UNCHANGED <<instance, mgrConn, svc, pc, req, source>>
       ELSE IF n = 0 \/ n # VectorDim
       THEN /\ http' = 400
            /\ UNCHANGED <<instance, mgrConn, svc, pc, req, source>>
       ELSE LET g == GetInstance
                use == use_cache /\ CACHE_ENABLED
            IN /\ instance' = g.instance
               /\ mgrConn' = g.conn
               /\ svc' = [cache_manager |-> g.manager, postgres_conn |-> "none"]
               /\ req' = [query_vector |-> QueryVector(n, c), limit |-> limit,
                          use_cache |-> use]
               /\ source' = "unknown"
               /\ http' = 0
               /\ pc' = IF UseCacheLayer(use, g.manager)
                        THEN "attempt_cache" ELSE "fallback_store"
    /\ UNCHANGED <<envVars, storeState, store, cacheVars>>

\* (a slip: what the cache answered is returned as it is, empty or not)
AttemptCacheUnguarded ==
    /\ pc = "attempt_cache"
    /\ \E r \in SmartVectorSearch(req.query_vector, req.limit) :
          /\ trace' = [trace EXCEPT !.cache_calls = @ + 1,
                                    !.cache_result =
                                        IF r.kind = "raise" THEN "raised"
                                        ELSE IF Len(r.results) = 0 THEN "empty"
                                        ELSE "hit"]
          /\ source' = IF r.kind = "raise" THEN "cache_error" ELSE "cache"
          /\ IF r.kind = "results"
             THEN /\ outcome' = Answered(r.results, "cache")
                  /\ pc' = "returned"
             ELSE /\ outcome' = outcome
                  /\ pc' = "fallback_store"
    /\ UNCHANGED <<envVars, storeState, store, instance, mgrConn, svc, req,
                   http, cacheVars>>

\* the cache attempt: a non-empty result is returned at once with source
\* "cache"; an empty one and an exception lead on to the store
AttemptCache ==
    /\ pc = "attempt_cache"
    /\ \E r \in SmartVectorSearch(req.query_vector, req.limit) :
          /\ trace' = [trace EXCEPT !.cache_calls = @ + 1,
                                    !.cache_result =
                                        IF r.kind = "raise" THEN "raised"
                                        ELSE IF Len(r.results) = 0 THEN "empty"
                                        ELSE "hit"]
          /\ source' = SourceAfterCache(r)
          /\ IF r.kind = "results" /\ Len(r.results) > 0
             THEN /\ outcome' = Answered(r.results, SourceAfterCache(r))
                  /\ pc' = "returned"
             ELSE /\ outcome' = outcome
                  /\ pc' = "fallback_store"
    /\ UNCHANGED <<envVars, storeState, store, instance, mgrConn, svc, req,
                   http, cacheVars>>

\* the store fallback and the assembly of the dictionary; the outer except
\* branch answers whatever was raised on the way
FallbackStore(answer) ==
    /\ pc = "fallback_store"
    /\ answer \in StoreAnswers(store, req.query_vector, req.limit)
    /\ LET d == DirectPostgresSearch(svc.postgres_conn, req.query_vector,
                                     req.limit, answer)
       IN /\ svc' = [svc EXCEPT !.postgres_conn = d.conn]
          /\ trace' = [trace EXCEPT !.fallback_calls = @ + 1,
                                    !.connects = @ + d.connects,
                                    !.store_queries = @ + d.store_queries,
                                    !.store_seen = storeState,
                                    !.answer = answer]
          /\ IF d.raised
             THEN /\ source' = source
                  /\ outcome' = Failed("store failure")
             ELSE /\ source' = SourceAfterStore(source)
                  /\ outcome' = Answered(d.results, SourceAfterStore(source))
    /\ pc' = "returned"
    /\ UNCHANGED <<envVars, storeState, store, instance, mgrConn, req, http,
                   cacheVars>>

\* the handler wraps the dictionary into the response; its locals go, the
\* service is dropped and __del__ closes its connection
RouteRespond ==
    /\ pc = "returned"
    /\ http' = 200
    /\ svc' = NoService
    /\ req' = NoRequest
    /\ source' = "unknown"
    /\ outcome' = NoOutcome
    /\ trace' = NoTrace
    /\ pc' = "idle"
    /\ UNCHANGED <<envVars, storeState, store, instance, mgrConn, cacheVars>>

\* the durable store becomes unreachable, reachable, or fails its queries
StoreChange(s) ==
    /\ s # storeState
    /\ storeState' = s
    /\ UNCHANGED <<envVars, store, instance, mgrConn, svc, pc, req, source,
                   outcome, http, trace, cacheVars>>

StoreStates == {"up", "down", "query_fails"}

NoRet ==
    [op |-> "none", pos |-> 0, ok |-> FALSE, changed |-> FALSE, value |-> <<>>,
     kind |-> "none"]

Init ==
    /\ POSTGRES_AVAILABLE \in BOOLEAN
    /\ POSTGRES_URL \in {"", "placeholder", "real"}
    /\ CACHE_ENABLED \in BOOLEAN
    /\ storeState \in StoreStates
    /\ store \in StoreTables
    /\ instance = "none"
    /\ mgrConn = "none"
    /\ svc = NoService
    /\ pc = "idle"
    /\ req = NoRequest
    /\ source = "unknown"
    /\ outcome = NoOutcome
    /\ http = 0
    /\ trace = NoTrace
    /\ redis = <<>>
    /\ redisUp = TRUE
    /\ ret = NoRet
    /\ lastWrite = <<>>

Next ==
    \/ \E n \in QueryLengths, c \in Fills, limit \in QueryLimits, u \in BOOLEAN :
          RouteSearch(n, c, limit, u)
    \/ AttemptCache
    \/ \E a \in PosSeqs(MaxPos) : FallbackStore(a)
    \/ RouteRespond
    \/ \E s \in StoreStates : StoreChange(s)

Spec == Init /\ [][Next]_vars

-----------------------------------------------------------------------------
(* Claims about search_similar_products *)

Returned == pc = "returned"

\* the cache path could not satisfy the query: it raised, or it was not used
CachePathFailed == trace.cache_result \in {"raised", "none"}

\* the store as the fallback met it
StoreReachable ==
    /\ POSTGRES_AVAILABLE
    /\ POSTGRES_URL = "real"
    /\ trace.store_seen = "up"

StoreUnavailable ==
    /\ trace.fallback_calls = 1
    /\ ~StoreReachable

FallbackSources == {"postgres", "cache_error_fallback", "cache_miss_fallback"}

ResultPositions == [i \in 1..Len(outcome.results) |-> outcome.results[i].pos]

\* C1: when the cache path cannot satisfy the query and the store is
\* unavailable too, the outcome is results = [], result_count = 0,
\* source = "error" and a non-empty error message.
C1_BothUnavailableIsError ==
    (Returned /\ CachePathFailed /\ StoreUnavailable) =>
        /\ outcome.results = <<>>
        /\ outcome.result_count = 0
        /\ outcome.source = "error"
        /\ outcome.has_error
        /\ outcome.error # ""

\* C2: when the cache call raised and the store is reachable, the call
\* returns, with source "postgres" or "cache_error_fallback", the store's
\* nearest-neighbour answer: the first limit rows by ascending distance, each
\* with similarity = 1 - distance.
C2_CacheDownStoreAnswers ==
    (Returned /\ trace.cache_result = "raised" /\ StoreReachable) =>
        /\ ~outcome.has_error
        /\ outcome.source \in {"postgres", "cache_error_fallback"}
        /\ outcome.result_count = Len(outcome.results)
        /\ IsNearest(ResultPositions, store, req.query_vector, req.limit)
        /\ \A i \in 1..Len(outcome.results) :
              outcome.results[i].similarity =
                  1 - Distance(req.query_vector, store[outcome.results[i].pos])

C2_Witness ==
    /\ Returned
    /\ trace.cache_result = "raised"
    /\ StoreReachable
    /\ outcome.source = "cache_error_fallback"
    /\ Len(outcome.results) = 2
    /\ outcome.results[1].similarity > outcome.results[2].similarity

\* C3 as stated: every returned outcome carries a source that is one of
\* cache, postgres, cache_error_fallback, error.
C3_SourceOneOfFour ==
    Returned => outcome.source \in {"cache", "postgres", "cache_error_fallback", "error"}

\* C3 as amended: every returned outcome carries a source that is one of
\* cache, postgres, cache_error_fallback, cache_miss_fallback, error; an empty
\* cache result followed by the store gives cache_miss_fallback.
C3_SourceOneOfFive ==
    /\ Returned => outcome.source \in {"cache", "postgres", "cache_error_fallback",
                                       "cache_miss_fallback", "error"}
    /\ (Returned /\ trace.cache_result = "empty") =>
          outcome.source = "cache_miss_fallback"

C3_Witness ==
    /\ Returned
    /\ trace.cache_result = "empty"
    /\ outcome.source = "cache_miss_fallback"
    /\ Len(outcome.results) > 0

\* C4: when the cache attempt raised or returned nothing, the query went on
\* to the store fallback exactly once after the one cache attempt (running
\* the distance query once when the store connection stands), the failure of
\* the cache is not handed to the caller as an error, and no empty result is
\* ever returned with source "cache".
C4_CacheFailureFallsBack ==
    /\ (Returned /\ trace.cache_result \in {"raised", "empty"}) =>
          /\ trace.cache_calls = 1
          /\ trace.fallback_calls = 1
          /\ trace.store_queries = IF svc.postgres_conn = "open" THEN 1 ELSE 0
          /\ ~outcome.has_error
          /\ outcome.source \in {"cache_error_fallback", "cache_miss_fallback"}
    /\ (Returned /\ outcome.source = "cache") => Len(outcome.results) > 0
    /\ (pc = "fallback_store" /\ trace.cache_calls = 1) =>
          /\ trace.cache_result \in {"raised", "empty"}
          /\ trace.fallback_calls = 0
          /\ outcome = NoOutcome

C4_Witness ==
    /\ Returned
    /\ trace.cache_result = "empty"
    /\ trace.cache_calls = 1
    /\ trace.fallback_calls = 1
    /\ trace.store_queries = 1
    /\ outcome.source = "cache_miss_fallback"
    /\ Len(outcome.results) > 0

\* C5: after a query that asked for the cache was satisfied by the store
\* fallback while a cache manager is available, every returned record has its
\* product:<pos> or vector:<pos> entry in the cache when the outcome is
\* returned.
C5_FallbackWritesBack ==
    (/\ Returned
     /\ outcome.source \in FallbackSources
     /\ req.use_cache
     /\ svc.cache_manager # "none") =>
        \A i \in 1..Len(outcome.results) :
            \/ <<"product", outcome.results[i].pos>> \in DOMAIN redis
            \/ <<"vector", outcome.results[i].pos>> \in DOMAIN redis

\* C25: with an empty or placeholder connection string the store fallback
\* makes no connection attempt and no query, and the outcome reports the
\* configuration error.
C25_PlaceholderFailsFast ==
    (Returned /\ trace.fallback_calls = 1 /\ POSTGRES_URL \in {"", "placeholder"}) =>
        /\ trace.connects = 0
        /\ trace.store_queries = 0
        /\ outcome.has_error
        /\ outcome.error # ""

\* C27: a request with an empty or mis-dimensioned vector or a limit outside
\* 1..100 is refused: a service exists and cache or store calls are made only
\* for a request of 1024 components and a limit in 1..100, and a refusal leaves
\* no service and no call behind.
C27_InvalidRejected ==
    /\ (pc # "idle" \/ svc # NoService \/ trace # NoTrace) =>
          /\ req.query_vector.len = VectorDim
          /\ req.limit \in 1..LimitMax
    /\ http \in {400, 422} =>
          /\ pc = "idle"
          /\ svc = NoService
          /\ trace = NoTrace
          /\ outcome = NoOutcome

C27_Witness ==
    /\ http = 400
    /\ pc = "idle"
    /\ CACHE_ENABLED
    /\ POSTGRES_AVAILABLE
    /\ POSTGRES_URL = "real"
    /\ instance = "none"
    /\ storeState = "up"

-----------------------------------------------------------------------------
(* RedisVectorCacheManager: texts and Python values *)

\* A text is the sequence of its tokens: brackets, commas, number literals.
\* A Python value is a list, a tuple, a number, a dictionary, a string (its
\* text) or None.
PyList(items) == [t |-> "list", items |-> items, text |-> <<>>]
PyTuple(items) == [t |-> "tuple", items |-> items, text |-> <<>>]
PyNum(n) == [t |-> "num", items |-> <<n>>, text |-> <<>>]
PyDict == [t |-> "dict", items |-> <<>>, text |-> <<>>]
PyStr(text) == [t |-> "str", items |-> <<>>, text |-> text]
PyNone == [t |-> "none", items |-> <<>>, text |-> <<>>]
Raised == [t |-> "raised", items |-> <<>>, text |-> <<>>]

\* the literal of a number, and the number of a literal
Literal == [n \in Comps |-> ToString(n)]
NumberOf == [tok \in {Literal[n] : n \in Comps} |-> CHOOSE n \in Comps : Literal[n] = tok]
IsNumber(tok) == tok \in DOMAIN NumberOf
ParseNumber(tok) == NumberOf[tok]

\* the tokens open x1 , x2 , ... xn close
Bracketed(open, items, close) ==
    LET last == 2 * Len(items) + 1 IN
    IF last = 1 THEN <<open, close>>
    ELSE [i \in 1..last |->
            IF i = 1 THEN open
            ELSE IF i = last THEN close
            ELSE IF i % 2 = 0 THEN Literal[items[i \div 2]] ELSE ","]

\* the same with a comma after the last item
BracketedTrailing(open, items, close) ==
    LET last == 2 * Len(items) + 2 IN
    [i \in 1..last |->
        IF i = 1 THEN open
        ELSE IF i = last THEN close
        ELSE IF i % 2 = 0 THEN Literal[items[i \div 2]] ELSE ","]

\* text is open, n numbers with commas between them, close
IsBracketed(text, open, close) ==
    /\ Len(text) >= 2
    /\ text[1] = open
    /\ text[Len(text)] = close
    /\ \/ Len(text) = 2
       \/ /\ Len(text) % 2 = 1
          /\ \A i \in 2..(Len(text) - 1) :
                IF i % 2 = 0 THEN IsNumber(text[i]) ELSE text[i] = ","

\* the same with a comma after the last of at least one number
IsBracketedTrailing(text, open, close) ==
    /\ Len(text) >= 4
    /\ Len(text) % 2 = 0
    /\ text[1] = open
    /\ text[Len(text)] = close
    /\ \A i \in 2..(Len(text) - 1) :
          IF i % 2 = 0 THEN IsNumber(text[i]) ELSE text[i] = ","

ItemsOf(text) == [i \in 1..((Len(text) - 1) \div 2) |-> ParseNumber(text[2 * i])]

\* (a slip: the last component is lost in the encoding)
JsonDumpsShort(items) ==
    Bracketed("[", [i \in 1..(Len(items) - 1) |-> items[i]], "]")

\* json.dumps(vector)
JsonDumps(items) == Bracketed("[", items, "]")

\* json.loads(text): an array of numbers, a number, an object; anything else
\* raises
JsonLoads(text) ==
    IF IsBracketed(text, "[", "]") THEN PyList(ItemsOf(text))
    ELSE IF Len(text) = 1 /\ IsNumber(text[1]) THEN PyNum(ParseNumber(text[1]))
    ELSE IF text = <<"{", "}">> THEN PyDict
    ELSE Raised

\* ast.literal_eval(text): a list or tuple display (a trailing comma allowed),
\* a number, a dictionary display; anything else raises
LiteralEval(text) ==
    IF IsBracketed(text, "[", "]") \/ IsBracketedTrailing(text, "[", "]")
    THEN PyList(ItemsOf(text))
    ELSE IF Len(text) = 3 /\ IsBracketed(text, "(", ")")
    THEN PyNum(ParseNumber(text[2]))
    ELSE IF IsBracketed(text, "(", ")") \/ IsBracketedTrailing(text, "(", ")")
    THEN PyTuple(ItemsOf(text))
    ELSE IF Len(text) = 1 /\ IsNumber(text[1]) THEN PyNum(ParseNumber(text[1]))
    ELSE IF text = <<"{", "}">> THEN PyDict
    ELSE Raised

\* parse_vector_string: json.loads when the string starts with '[', then
\* ast.literal_eval, then the value itself when it is a list; else ValueError
ParseVectorString(v) ==
    LET j == IF v.t = "str" /\ Len(v.text) > 0 /\ v.text[1] = "["
             THEN JsonLoads(v.text) ELSE Raised
        l == IF v.t = "str" THEN LiteralEval(v.text) ELSE Raised
    IN IF j.t # "raised" THEN j
       ELSE IF l.t # "raised" THEN l
       ELSE IF v.t = "list" THEN v
       ELSE Raised

-----------------------------------------------------------------------------
(* RedisVectorCacheManager: the keyspace and the vector operations *)

VectorKey(pos) == <<"vector", pos>>
ProductKey(pos) == <<"product", pos>>

\* (a slip: the write keeps a value the key already holds)
SetexIfAbsent(r, key, ttl, text) ==
    [k \in DOMAIN r \cup {key} |->
        IF k = key /\ key \notin DOMAIN r THEN [text |-> text, ttl |-> ttl] ELSE r[k]]

\* setex(key, ttl, text) on keyspace r
Setex(r, key, ttl, text) ==
    [k \in DOMAIN r \cup {key} |->
        IF k = key THEN [text |-> text, ttl |-> ttl] ELSE r[k]]

Without(r, key) == [k \in DOMAIN r \ {key} |-> r[k]]

\* ttl = ttl or self.default_ttl : None and 0 give the default
EffectiveTTL(ttl) == IF ttl = 0 THEN DefaultTTL ELSE ttl

\* the value of an expression, evaluated once
TheOne(S) == CHOOSE x \in S : TRUE

\* cache_vector from the validity test on, v being the vector after parsing
StoreVector(v) ==
    IF v.t = "raised" THEN [ok |-> FALSE, write |-> FALSE, text |-> <<>>]
    ELSE IF v.t # "list" \/ Len(v.items) # VectorDim
    THEN [ok |-> FALSE, write |-> FALSE, text |-> <<>>]
    ELSE IF ~redisUp THEN [ok |-> FALSE, write |-> FALSE, text |-> <<>>]
    ELSE [ok |-> TRUE, write |-> TRUE, text |-> JsonDumps(v.items)]

\* (a slip: the length test is left out)
StoreVectorUnchecked(v) ==
    IF v.t # "list" THEN [ok |-> FALSE, write |-> FALSE, text |-> <<>>]
    ELSE IF ~redisUp THEN [ok |-> FALSE, write |-> FALSE, text |-> <<>>]
    ELSE [ok |-> TRUE, write |-> TRUE, text |-> JsonDumps(v.items)]

CacheVectorUnchecked(pos, vector) ==
    TheOne({StoreVectorUnchecked(v) :
              v \in {IF vector.t = "str" THEN ParseVectorString(vector) ELSE vector}})

\* cache_vector up to the write: what it returns, whether it writes, and the
\* text it writes.  A string is parsed first; a value that is no list of
\* 1024 components is refused; an exception anywhere gives False.
CacheVector(pos, vector) ==
    TheOne({StoreVector(v) :
              v \in {IF vector.t = "str" THEN ParseVectorString(vector) ELSE vector}})

\* (a slip: the length test is left out)
GetCachedVectorUnchecked(pos) ==
    IF ~redisUp \/ VectorKey(pos) \notin DOMAIN redis THEN PyNone
    ELSE IF Len(redis[VectorKey(pos)].text) = 0 THEN PyNone
    ELSE LET v == JsonLoads(redis[VectorKey(pos)].text)
         IN IF v.t = "list" THEN v ELSE PyNone

\* get_cached_vector: None when the backend fails, the key is missing, the
\* text is empty or does not decode, or the value is no list of 1024
\* components
GetCachedVector(pos) ==
    IF ~redisUp THEN PyNone
    ELSE IF VectorKey(pos) \notin DOMAIN redis THEN PyNone
    ELSE IF Len(redis[VectorKey(pos)].text) = 0 THEN PyNone
    ELSE LET v == JsonLoads(redis[VectorKey(pos)].text)
         IN IF v.t = "list" /\ Len(v.items) = VectorDim THEN v ELSE PyNone

-----------------------------------------------------------------------------
(* The vector cache in use *)

\* the components c of the vectors cached: c, -c, c, ...
ValidComps == 0..MaxComp

\* What cache_vector is called with.  kind says what the argument denotes: a
\* list of VectorDim components ("fit"), a list of another length
\* ("misfit"), nothing that parses ("unparseable"), or no list at all
\* ("other": a tuple display, None); c says which components a fit one has.
VectorArgs ==
    {[val |-> PyList(PatternVector(VectorDim, c)), kind |-> "fit", c |-> c] :
        c \in ValidComps}
    \cup {[val |-> PyStr(Bracketed("[", PatternVector(VectorDim, c), "]")),
           kind |-> "fit", c |-> c] : c \in ValidComps}
    \cup {[val |-> PyStr(BracketedTrailing("[", PatternVector(VectorDim, MaxComp), "]")),
           kind |-> "fit", c |-> MaxComp],
          [val |-> PyList(PatternVector(VectorDim + 1, MaxComp)), kind |-> "misfit", c |-> 0],
          [val |-> PyList(PatternVector(VectorDim - 1, MaxComp)), kind |-> "misfit", c |-> 0],
          [val |-> PyList(<<>>), kind |-> "misfit", c |-> 0],
          [val |-> PyStr(Bracketed("[", PatternVector(VectorDim - 1, MaxComp), "]")),
           kind |-> "misfit", c |-> 0],
          [val |-> PyStr(BracketedTrailing("[", PatternVector(VectorDim + 1, MaxComp), "]")),
           kind |-> "misfit", c |-> 0],
          [val |-> PyStr(<<"[", "]">>), kind |-> "misfit", c |-> 0],
          [val |-> PyStr(<<"[", "0", ",", "0", "]">>), kind |-> "misfit", c |-> 0],
          [val |-> PyStr(<<"garbage">>), kind |-> "unparseable", c |-> 0],
          [val |-> PyStr(<<"[", "0", ",">>), kind |-> "unparseable", c |-> 0],
          [val |-> PyStr(<<>>), kind |-> "unparseable", c |-> 0],
          [val |-> PyStr(Bracketed("(", PatternVector(VectorDim, MaxComp), ")")),
           kind |-> "other", c |-> 0],
          [val |-> PyNone, kind |-> "other", c |-> 0]}

\* the positions whose vector entry is followed
VectorPositions == {1}

\* the ttl argument: None (0 here) or a number of seconds
TTLArgs == {0, ShortTTL}

\* texts another client of the keyspace may leave under a vector key
ForeignTexts ==
    {[text |-> <<"garbage">>, note |-> "undecodable"],
     [text |-> <<"[", "0", ",">>, note |-> "undecodable"],
     [text |-> Bracketed("[", PatternVector(VectorDim + 1, MaxComp), "]"),
      note |-> "wrong_length"],
     [text |-> <<"0">>, note |-> "no_list"],
     [text |-> <<"[", "0", ",", "0", "]">>, note |-> "wrong_length"],
     [text |-> <<>>, note |-> "empty"]}

\* cache_vector(pos, a.val, ttl)
DoCacheVector(pos, a, ttl) ==
    \E r \in {CacheVector(pos, a.val)} :
    /\ redis' = IF r.write
                THEN Setex(redis, VectorKey(pos), EffectiveTTL(ttl), r.text)
                ELSE redis
    /\ lastWrite' = IF r.write
                    THEN [k \in DOMAIN lastWrite \cup {VectorKey(pos)} |->
                            IF k = VectorKey(pos)
                            THEN [note |-> "vector", c |-> a.c, ttl |-> ttl, age |-> 0]
                            ELSE lastWrite[k]]
                    ELSE lastWrite
    /\ ret' = [op |-> "cache_vector", pos |-> pos, ok |-> r.ok,
               changed |-> redis' # redis, value |-> PyNone, kind |-> a.kind]
    /\ UNCHANGED <<envVars, searchVars, redisUp>>

\* get_cached_vector(pos)
DoGetCachedVector(pos) ==
    \E v \in {GetCachedVector(pos)} :
    /\ ret' = [op |-> "get_cached_vector", pos |-> pos, ok |-> v.t = "list",
               changed |-> FALSE, value |-> v, kind |-> "none"]
    /\ UNCHANGED <<envVars, searchVars, redis, redisUp, lastWrite>>

\* the TTL of an entry runs out
Expire(key) ==
    /\ key \in DOMAIN redis
    /\ redis' = Without(redis, key)
    /\ lastWrite' = [k \in DOMAIN lastWrite \ {key} |-> lastWrite[k]]
    /\ ret' = NoRet
    /\ UNCHANGED <<envVars, searchVars, redisUp>>

\* another client of the keyspace writes under a vector key
ForeignWrite(pos, f) ==
    /\ redisUp
    /\ redis' = Setex(redis, VectorKey(pos), DefaultTTL, f.text)
    /\ lastWrite' = [k \in DOMAIN lastWrite \cup {VectorKey(pos)} |->
                        IF k = VectorKey(pos)
                        THEN [note |-> f.note, c |-> 0]
                        ELSE lastWrite[k]]
    /\ ret' = NoRet
    /\ UNCHANGED <<envVars, searchVars, redisUp>>

\* the Redis backend stops or starts answering
RedisChange ==
    /\ redisUp' = ~redisUp
    /\ ret' = NoRet
    /\ UNCHANGED <<envVars, searchVars, redis, lastWrite>>

\* a running process with the cache manager constructed and the keyspace empty
CacheInit ==
    /\ POSTGRES_AVAILABLE = TRUE
    /\ POSTGRES_URL = "real"
    /\ CACHE_ENABLED = TRUE
    /\ storeState = "up"
    /\ store = <<>>
    /\ instance = "manager"
    /\ mgrConn = "open"
    /\ svc = NoService
    /\ pc = "idle"
    /\ req = NoRequest
    /\ source = "unknown"
    /\ outcome = NoOutcome
    /\ http = 0
    /\ trace = NoTrace
    /\ redis = <<>>
    /\ redisUp = TRUE
    /\ ret = NoRet
    /\ lastWrite = <<>>

VectorNext ==
    \/ \E pos \in VectorPositions, a \in VectorArgs, ttl \in TTLArgs :
            DoCacheVector(pos, a, ttl)
    \/ \E pos \in VectorPositions : DoGetCachedVector(pos)
    \/ \E pos \in VectorPositions : Expire(VectorKey(pos))
    \/ \E pos \in VectorPositions, f \in ForeignTexts : ForeignWrite(pos, f)
    \/ RedisChange

VectorSpec == CacheInit /\ [][VectorNext]_vars

-----------------------------------------------------------------------------
(* Claims about the vector cache *)

\* the vector entry of pos is live and was last written by cache_vector
VectorLive(pos) ==
    /\ VectorKey(pos) \in DOMAIN redis
    /\ lastWrite[VectorKey(pos)].note = "vector"

\* the entry of pos is live and was last written by another client with a
\* text of one of the notes
ForeignLive(pos, notes) ==
    /\ VectorKey(pos) \in DOMAIN redis
    /\ lastWrite[VectorKey(pos)].note \in notes

\* C6: after a successful cache_vector(position, v) with v of 1024 components,
\* get_cached_vector(position), the entry neither expired nor rewritten in
\* between and the backend answering, returns a vector equal to v.
C6_VectorRoundTrip ==
    \A pos \in VectorPositions :
        (ret.op = "get_cached_vector" /\ ret.pos = pos /\ redisUp /\ VectorLive(pos))
            => ret.value = PyList(PatternVector(VectorDim, lastWrite[VectorKey(pos)].c))

C6_Witness ==
    /\ ret.op = "get_cached_vector"
    /\ redisUp
    /\ VectorLive(ret.pos)
    /\ lastWrite[VectorKey(ret.pos)].c = MaxComp
    /\ ret.value.t = "list"
    /\ Len(ret.value.items) = VectorDim
    /\ ret.value.items[1] = MaxComp
    /\ ret.value.items[VectorDim] = -MaxComp

\* C7: cache_vector called with a vector of another length than 1024, as a
\* sequence or as a text, or with an input that does not parse, returns false
\* and leaves the keyspace as it was.
C7_BadVectorRefused ==
    (ret.op = "cache_vector" /\ ret.kind \in {"misfit", "unparseable"})
        => (~ret.ok /\ ~ret.changed)

C7_Witness ==
    /\ ret.op = "cache_vector"
    /\ ret.kind = "misfit"
    /\ ~ret.ok
    /\ redisUp
    /\ VectorLive(ret.pos)
    /\ Len(redis[VectorKey(ret.pos)].text) = 2 * VectorDim + 1

\* C8: get_cached_vector returns a value, never an exception; it returns None
\* when the key is missing or expired, when the text does not decode, when the
\* decoded value is no sequence of 1024 components, and when the backend call
\* fails; a vector it returns has 1024 components.
C8_GetAbsentOrWhole ==
    ret.op = "get_cached_vector" =>
        /\ ret.value.t \in {"none", "list"}
        /\ VectorKey(ret.pos) \notin DOMAIN redis => ret.value = PyNone
        /\ ForeignLive(ret.pos, {"undecodable", "empty"}) => ret.value = PyNone
        /\ ForeignLive(ret.pos, {"no_list", "wrong_length"}) => ret.value = PyNone
        /\ ~redisUp => ret.value = PyNone
        /\ ret.value.t = "list" => Len(ret.value.items) = VectorDim

C8_Witness ==
    /\ ret.op = "get_cached_vector"
    /\ redisUp
    /\ ForeignLive(ret.pos, {"wrong_length"})
    /\ Len(redis[VectorKey(ret.pos)].text) = 2 * (VectorDim + 1) + 1
    /\ ret.value = PyNone

-----------------------------------------------------------------------------
(* RedisVectorCacheManager: the serialization of a product record *)

\* A field value of a record: its Python type t and the tokens s that say which
\* value of the type it is.  int: its literal; float and Decimal: the integer
\* part, ".", the digits after the point; bool: True or False; str: the tokens
\* of the string; list: the strings it holds; dict: a key and an int literal;
\* datetime: the date and the time of day; date: the date; object: the class
\* name, then a key and an int literal of its __dict__; exotic: the name of a
\* class whose instances carry a __dict__ that json cannot encode; bytes: the
\* content.
PV(t, s) == [t |-> t, s |-> s]

\* the types json.dumps encodes
Natives == {"int", "float", "bool", "none", "str", "list", "dict"}
Encodable(v) == v.t \in Natives

\* the int literals in use
IntLiterals == {"0", "1", "4", "10", "1000"}

\* datetime.isoformat(), date.isoformat()
Isoformat(v) == IF v.t = "datetime" THEN <<v.s[1], "T", v.s[2]>> ELSE v.s

RECURSIVE StripZeros(_)
StripZeros(digits) ==
    IF Len(digits) > 1 /\ digits[Len(digits)] = "0"
    THEN StripZeros(SubSeq(digits, 1, Len(digits) - 1))
    ELSE digits

\* float(Decimal): the shortest literal of the same number
FloatOfDecimal(s) ==
    IF Len(s) <= 2 THEN <<s[1], ".", "0">>
    ELSE <<s[1], ".">> \o StripZeros(SubSeq(s, 3, Len(s)))

\* the items, each between open and close, with sep between two of them
RECURSIVE Joined(_, _, _, _)
Joined(items, open, close, sep) ==
    IF items = <<>> THEN <<>>
    ELSE open \o <<Head(items)>> \o close
         \o (IF Len(items) > 1 THEN sep ELSE <<>>)
         \o Joined(Tail(items), open, close, sep)

\* str(v)
StrOf(v) ==
    CASE v.t = "none" -> <<"None">>
      [] v.t = "list" -> <<"[">> \o Joined(v.s, <<"'">>, <<"'">>, <<",", " ">>) \o <<"]">>
      [] v.t = "dict" -> <<"{", "'", v.s[1], "'", ":", " ", v.s[2], "}">>
      [] v.t = "datetime" -> <<v.s[1], " ", v.s[2]>>
      [] v.t \in {"object", "exotic"} -> <<"<", v.s[1], " object>">>
      [] v.t = "bytes" -> <<"b'", v.s[1], "'">>
      [] OTHER -> v.s

\* convert_types of serialize_for_redis
ConvertTypes(v) ==
    CASE v.t \in {"datetime", "date"} -> PV("str", Isoformat(v))
      [] v.t = "decimal" -> PV("float", FloatOfDecimal(v.s))
      [] v.t = "object" -> PV("dict", SubSeq(v.s, 2, 3))
      [] v.t = "exotic" -> PV("unencodable", v.s)
      [] OTHER -> PV("str", StrOf(v))

\* serialize_for_redis(data), data a dict
SerializeForRedis(data) == [k \in DOMAIN data |-> ConvertTypes(data[k])]

\* json.dumps of an encodable value
EncodeValue(v) ==
    CASE v.t = "bool" -> IF v.s = <<"True">> THEN <<"true">> ELSE <<"false">>
      [] v.t = "none" -> <<"null">>
      [] v.t = "str" -> <<"\"">> \o v.s \o <<"\"">>
      [] v.t = "list" -> <<"[">> \o Joined(v.s, <<"\"">>, <<"\"">>, <<",">>) \o <<"]">>
      [] v.t = "dict" -> <<"{", "\"", v.s[1], "\"", ":", v.s[2], "}">>
      [] OTHER -> v.s

\* the order of the columns of a row
FieldOrder ==
    <<"name", "price", "tags", "created_at", "released", "in_stock", "rating",
      "brand", "meta", "blob", "handle">>

KeysInOrder(rec) == SelectSeq(FieldOrder, LAMBDA k : k \in DOMAIN rec)

RECURSIVE Members(_, _)
Members(rec, keys) ==
    IF keys = <<>> THEN <<>>
    ELSE <<"\"", Head(keys), "\"", ":">> \o EncodeValue(rec[Head(keys)])
         \o (IF Len(keys) > 1 THEN <<",">> ELSE <<>>)
         \o Members(rec, Tail(keys))

\* json.dumps(rec, ensure_ascii=False): TypeError when a value is not encodable
DumpsRecord(rec) ==
    IF \E k \in DOMAIN rec : ~Encodable(rec[k])
    THEN [ok |-> FALSE, text |-> <<>>]
    ELSE [ok |-> TRUE, text |-> <<"{">> \o Members(rec, KeysInOrder(rec)) \o <<"}">>]

\* (a slip: the last resort leaves the fields out that json cannot encode)
SafeJsonDumpsDropping(data) ==
    LET first == DumpsRecord(SerializeForRedis(data))
        kept == {k \in DOMAIN data : Encodable(data[k])}
    IN IF first.ok THEN first ELSE DumpsRecord([k \in kept |-> data[k]])

\* safe_json_dumps(data), data a dict: the normalized record when json encodes
\* it; else the record itself, each value json cannot encode replaced by its
\* str()
SafeJsonDumps(data) ==
    LET first == DumpsRecord(SerializeForRedis(data))
    IN IF first.ok THEN first
       ELSE DumpsRecord([k \in DOMAIN data |->
                            IF Encodable(data[k]) THEN data[k]
                            ELSE PV("str", StrOf(data[k]))])

\* the least index from i on of a token among toks, or Len(text) + 1
IndexFrom(text, i, toks) ==
    LET S == {j \in i..Len(text) : text[j] \in toks}
    IN IF S = {} THEN Len(text) + 1 ELSE CHOOSE j \in S : \A k \in S : j <= k

NoValue == [ok |-> FALSE, val |-> PV("none", <<>>), next |-> 0]

\* a number, true, false or null
DecodeBare(run, next) ==
    IF run = <<"null">> THEN [ok |-> TRUE, val |-> PV("none", <<>>), next |-> next]
    ELSE IF run = <<"true">> THEN [ok |-> TRUE, val |-> PV("bool", <<"True">>), next |-> next]
    ELSE IF run = <<"false">> THEN [ok |-> TRUE, val |-> PV("bool", <<"False">>), next |-> next]
    ELSE IF Len(run) = 1 /\ run[1] \in IntLiterals
    THEN [ok |-> TRUE, val |-> PV("int", run), next |-> next]
    ELSE IF Len(run) >= 3 /\ run[1] \in IntLiterals /\ run[2] = "."
    THEN [ok |-> TRUE, val |-> PV("float", run), next |-> next]
    ELSE NoValue

\* an array of strings: the tokens between the brackets
DecodeArray(inner, next) ==
    IF inner = <<>> THEN [ok |-> TRUE, val |-> PV("list", <<>>), next |-> next]
    ELSE IF /\ Len(inner) % 4 = 3
            /\ \A j \in 1..Len(inner) :
                  CASE j % 4 = 1 -> inner[j] = "\""
                    [] j % 4 = 3 -> inner[j] = "\""
                    [] j % 4 = 0 -> inner[j] = ","
                    [] OTHER -> TRUE
    THEN [ok |-> TRUE,
          val |-> PV("list", [m \in 1..((Len(inner) + 1) \div 4) |-> inner[4 * m - 2]]),
          next |-> next]
    ELSE NoValue

\* the JSON value that starts at token i of text, and the index after it
DecodeValue(text, i) ==
    IF i > Len(text) THEN NoValue
    ELSE IF text[i] = "\"" THEN
        LET j == IndexFrom(text, i + 1, {"\""})
        IN IF j > Len(text) THEN NoValue
           ELSE [ok |-> TRUE, val |-> PV("str", SubSeq(text, i + 1, j - 1)), next |-> j + 1]
    ELSE IF text[i] = "[" THEN
        LET j == IndexFrom(text, i + 1, {"]"})
        IN IF j > Len(text) THEN NoValue
           ELSE DecodeArray(SubSeq(text, i + 1, j - 1), j + 1)
    ELSE IF text[i] = "{" THEN
        IF /\ i + 6 <= Len(text)
           /\ text[i + 1] = "\"" /\ text[i + 3] = "\"" /\ text[i + 4] = ":"
           /\ text[i + 5] \in IntLiterals /\ text[i + 6] = "}"
        THEN [ok |-> TRUE, val |-> PV("dict", <<text[i + 2], text[i + 5]>>), next |-> i + 7]
        ELSE NoValue
    ELSE LET j == IndexFrom(text, i, {",", "}", "]"})
         IN DecodeBare(SubSeq(text, i, j - 1), j)

NoRecord == [ok |-> FALSE, t |-> "none", rec |-> <<>>]

\* the members of a JSON object from token i on, acc the ones read so far
RECURSIVE LoadsMembers(_, _, _)
LoadsMembers(text, i, acc) ==
    IF ~(i + 3 <= Len(text) /\ text[i] = "\"" /\ text[i + 2] = "\"" /\ text[i + 3] = ":")
    THEN NoRecord
    ELSE LET d == DecodeValue(text, i + 4)
             rec == (text[i + 1] :> d.val) @@ acc
         IN IF ~d.ok \/ d.next > Len(text) THEN NoRecord
            ELSE IF text[d.next] = "}" /\ d.next = Len(text)
            THEN [ok |-> TRUE, t |-> "dict", rec |-> rec]
            ELSE IF text[d.next] = "," THEN LoadsMembers(text, d.next + 1, rec)
            ELSE NoRecord

\* json.loads(text): an object as the record of its members, a number; not ok
\* when the text is no JSON
JsonLoadsRecord(text) ==
    IF text = <<"{", "}">> THEN [ok |-> TRUE, t |-> "dict", rec |-> <<>>]
    ELSE IF Len(text) >= 2 /\ text[1] = "{" THEN LoadsMembers(text, 2, <<>>)
    ELSE IF Len(text) = 1 /\ text[1] \in IntLiterals
    THEN [ok |-> TRUE, t |-> "int", rec |-> <<>>]
    ELSE NoRecord

\* cache_product up to the write: what it returns, whether setex is called,
\* whether it writes, and the text
CacheProduct(pos, data) ==
    LET j == SafeJsonDumps(data)
    IN IF ~j.ok
       THEN [ok |-> FALSE, attempted |-> FALSE, write |-> FALSE, text |-> <<>>]
       ELSE [ok |-> redisUp, attempted |-> TRUE, write |-> redisUp, text |-> j.text]

\* get_cached_product: None when the backend fails, the key is missing, or
\* the text is empty or does not decode; else the decoded value
GetCachedProduct(pos) ==
    IF ~redisUp THEN NoRecord
    ELSE IF ProductKey(pos) \notin DOMAIN redis THEN NoRecord
    ELSE IF Len(redis[ProductKey(pos)].text) = 0 THEN NoRecord
    ELSE JsonLoadsRecord(redis[ProductKey(pos)].text)

-----------------------------------------------------------------------------
(* The product cache in use *)

Shirt == PV("str", <<"shirt">>)
Created == PV("datetime", <<"2024-01-02", "03:04:05">>)
Lock == PV("exotic", <<"Lock">>)

\* the records cache_product is called with
ProductArgs ==
    {<<>>,
     ("name" :> Shirt) @@ ("brand" :> PV("str", <<"acme", " ", "co">>)),
     ("name" :> Shirt) @@ ("price" :> PV("int", <<"1000">>)),
     ("name" :> Shirt) @@ ("price" :> PV("decimal", <<"10", ".", "5", "0">>))
        @@ ("created_at" :> Created) @@ ("tags" :> PV("list", <<"casual", "summer">>)),
     ("released" :> PV("date", <<"2024-01-02">>)) @@ ("in_stock" :> PV("bool", <<"True">>))
        @@ ("rating" :> PV("float", <<"4", ".", "5">>)) @@ ("brand" :> PV("none", <<>>))
        @@ ("price" :> PV("decimal", <<"10">>)),
     ("name" :> Shirt) @@ ("price" :> PV("int", <<"1000">>)) @@ ("handle" :> Lock),
     ("created_at" :> Created) @@ ("price" :> PV("decimal", <<"10", ".", "5", "0">>))
        @@ ("handle" :> Lock),
     ("name" :> Shirt) @@ ("meta" :> PV("object", <<"Meta", "size", "4">>))
        @@ ("blob" :> PV("bytes", <<"x">>)) @@ ("tags" :> PV("dict", <<"size", "4">>))}

\* cache_product(pos, data, ttl)
DoCacheProduct(pos, data, ttl) ==
    \E r \in {CacheProduct(pos, data)} :
    /\ redis' = IF r.write
                THEN Setex(redis, ProductKey(pos), EffectiveTTL(ttl), r.text)
                ELSE redis
    /\ lastWrite' = IF r.write
                    THEN [k \in DOMAIN lastWrite \cup {ProductKey(pos)} |->
                            IF k = ProductKey(pos)
                            THEN [note |-> "product", data |-> data, ttl |-> ttl, age |-> 0]
                            ELSE lastWrite[k]]
                    ELSE lastWrite
    /\ ret' = [op |-> "cache_product", pos |-> pos, ok |-> r.ok,
               changed |-> redis' # redis, attempted |-> r.attempted,
               data |-> data, text |-> r.text]
    /\ UNCHANGED <<envVars, searchVars, redisUp>>

\* get_cached_product(pos)
DoGetCachedProduct(pos) ==
    \E v \in {GetCachedProduct(pos)} :
    /\ ret' = [op |-> "get_cached_product", pos |-> pos, ok |-> v.ok,
               changed |-> FALSE, value |-> v]
    /\ UNCHANGED <<envVars, searchVars, redis, redisUp, lastWrite>>

\* another client of the keyspace leaves a text under a product key
ForeignProductWrite(pos) ==
    /\ redisUp
    /\ redis' = Setex(redis, ProductKey(pos), DefaultTTL, <<"garbage">>)
    /\ lastWrite' = [k \in DOMAIN lastWrite \cup {ProductKey(pos)} |->
                        IF k = ProductKey(pos)
                        THEN [note |-> "undecodable", data |-> <<>>]
                        ELSE lastWrite[k]]
    /\ ret' = NoRet
    /\ UNCHANGED <<envVars, searchVars, redisUp>>

ProductNext ==
    \/ \E pos \in CachePositions, data \in ProductArgs, ttl \in TTLArgs :
            DoCacheProduct(pos, data, ttl)
    \/ \E pos \in CachePositions : DoGetCachedProduct(pos)
    \/ \E pos \in CachePositions : Expire(ProductKey(pos))
    \/ \E pos \in CachePositions : ForeignProductWrite(pos)
    \/ RedisChange

ProductSpec == CacheInit /\ [][ProductNext]_vars

-----------------------------------------------------------------------------
(* Claims about the product cache *)

\* the product entry of pos is live and was last written by cache_product
ProductLive(pos) ==
    /\ ProductKey(pos) \in DOMAIN redis
    /\ lastWrite[ProductKey(pos)].note = "product"

\* what the round trip is to give for a field value v: ISO-8601 strings for
\* datetime and date, a number for Decimal, v itself when json encodes it, its
\* string form otherwise
RoundTripValues(v) ==
    CASE v.t \in {"datetime", "date"} -> {PV("str", Isoformat(v))}
      [] v.t = "decimal" -> {PV("float", FloatOfDecimal(v.s))}
      [] v.t \in Natives -> {v}
      [] v.t = "object" -> {PV("str", StrOf(v)), PV("dict", SubSeq(v.s, 2, 3))}
      [] OTHER -> {PV("str", StrOf(v))}

\* C9: get_cached_product after cache_product returns a record with the same
\* field names, datetime and date values as ISO-8601 strings, Decimal values
\* as numbers, natively encodable values unchanged, and only the values json
\* cannot encode replaced by their string form.
C9_ProductRoundTrip ==
    \A pos \in CachePositions :
        (ret.op = "get_cached_product" /\ ret.pos = pos /\ redisUp /\ ProductLive(pos))
            => /\ ret.value.ok
               /\ ret.value.t = "dict"
               /\ DOMAIN ret.value.rec = DOMAIN lastWrite[ProductKey(pos)].data
               /\ \A k \in DOMAIN ret.value.rec :
                     ret.value.rec[k] \in RoundTripValues(lastWrite[ProductKey(pos)].data[k])

\* the fields of the record that neither normalization nor json encodes
Unencodable(data) == {k \in DOMAIN data : ~Encodable(ConvertTypes(data[k]))}

\* C10: cache_product calls the write for every record and returns false only
\* when the write fails; the text it hands to the write holds every field of
\* the record, the fields json cannot encode as their string form.
C10_ProductAlwaysWritten ==
    ret.op = "cache_product" =>
        /\ ret.attempted
        /\ ~ret.ok => ~redisUp
        /\ redisUp => (ret.ok /\ ProductLive(ret.pos)
                        /\ redis[ProductKey(ret.pos)].text = ret.text)
        /\ LET d == JsonLoadsRecord(ret.text)
           IN /\ d.ok
              /\ DOMAIN d.rec = DOMAIN ret.data
              /\ \A k \in Unencodable(ret.data) :
                    d.rec[k] = PV("str", StrOf(ret.data[k]))

C10_Witness ==
    /\ ret.op = "cache_product"
    /\ ret.ok
    /\ Unencodable(ret.data) # {}
    /\ Cardinality(DOMAIN ret.data) > 1
    /\ ProductLive(ret.pos)

-----------------------------------------------------------------------------
(* The entries of one position over time *)

\* the vectors and records written while the clock runs
ExpiryVectorArgs ==
    {[val |-> PyList(PatternVector(VectorDim, c)), kind |-> "fit", c |-> c] :
        c \in ValidComps}
    \cup {[val |-> PyList(<<>>), kind |-> "misfit", c |-> 0]}

ExpiryProductArgs ==
    {("name" :> Shirt) @@ ("price" :> PV("int", <<"1000">>)),
     ("name" :> Shirt) @@ ("handle" :> Lock),
     ("brand" :> PV("str", <<"acme">>))}

\* the keys whose TTL has not run out after TickLen more seconds
Surviving == {k \in DOMAIN redis : redis[k].ttl > TickLen}

\* TickLen seconds pass: Redis counts every TTL down and drops the entries
\* whose TTL has run out
Tick ==
    /\ DOMAIN redis # {}
    /\ redis' = [k \in Surviving |->
                    [text |-> redis[k].text, ttl |-> redis[k].ttl - TickLen]]
    /\ lastWrite' = [k \in Surviving |->
                        [lastWrite[k] EXCEPT !.age = lastWrite[k].age + TickLen]]
    /\ ret' = NoRet
    /\ UNCHANGED <<envVars, searchVars, redisUp>>

ExpiryNext ==
    \/ \E pos \in VectorPositions, a \in ExpiryVectorArgs, ttl \in TTLArgs :
            DoCacheVector(pos, a, ttl)
    \/ \E pos \in VectorPositions, data \in ExpiryProductArgs, ttl \in TTLArgs :
            DoCacheProduct(pos, data, ttl)
    \/ Tick
    \/ RedisChange

ExpirySpec == CacheInit /\ [][ExpiryNext]_vars

\* the TTL a write with argument ttl is to set: the default when none is given
GivenTTL(ttl) == IF ttl = 0 THEN DefaultTTL ELSE ttl

-----------------------------------------------------------------------------
(* RedisVectorCacheManager.warm_up_cache *)

\* The rows of embeddings3 and products3 for position p in catalog t: what the
\* dense_vector column holds ("absent": no row) and whether products3 has a row.
VectorColumns ==
    [a |-> <<"list_fit", "misfit", "other", "absent">>,
     b |-> <<"unparseable", "absent", "str_fit", "misfit">>]

WarmCatalogs == DOMAIN VectorColumns

VectorColumn(t, p) == VectorColumns[t][((p - 1) % 4) + 1]
HasProductRow(t, p) == t = "a" \/ p % 2 = 1

FitList == PyList(PatternVector(VectorDim, MaxComp))
FitText == PyStr(Bracketed("[", PatternVector(VectorDim, MaxComp), "]"))

\* the value of the dense_vector column
ColumnValue(kind) ==
    CASE kind = "list_fit" -> FitList
      [] kind = "str_fit" -> FitText
      [] kind = "misfit" -> PyList(<<0, 0>>)
      [] kind = "unparseable" -> PyStr(<<"garbage">>)
      [] OTHER -> PyNone

\* the row of products3
ProductRow(p) ==
    ("name" :> Shirt) @@ ("price" :> PV("decimal", <<"10", ".", "5", "0">>))

\* lines 213-231: one row of embeddings3.  A column that is neither str nor
\* list is an error; a string is parsed, a parse failure being an error; the
\* list goes to cache_vector, False being an error.
WarmVectorRow(pos, val) ==
    IF val.t \notin {"str", "list"}
    THEN [ok |-> FALSE, write |-> FALSE, text |-> <<>>]
    ELSE TheOne({IF v.t = "raised"
                 THEN [ok |-> FALSE, write |-> FALSE, text |-> <<>>]
                 ELSE CacheVector(pos, v) :
                    v \in {IF val.t = "str" THEN ParseVectorString(val) ELSE val}})

\* the tally and the keyspace after the rows of embeddings3 for the ids
RECURSIVE WarmVectors(_, _, _)
WarmVectors(t, ids, acc) ==
    IF ids = <<>> THEN acc
    ELSE IF VectorColumn(t, Head(ids)) = "absent" THEN WarmVectors(t, Tail(ids), acc)
    ELSE LET r == WarmVectorRow(Head(ids), ColumnValue(VectorColumn(t, Head(ids))))
         IN WarmVectors(t, Tail(ids),
                [redis |-> IF r.write
                           THEN Setex(acc.redis, VectorKey(Head(ids)), EffectiveTTL(0), r.text)
                           ELSE acc.redis,
                 vectors |-> acc.vectors + (IF r.ok THEN 1 ELSE 0),
                 products |-> acc.products,
                 errors |-> acc.errors + (IF r.ok THEN 0 ELSE 1)])

\* lines 238-245: the same for the rows of products3
RECURSIVE WarmProducts(_, _, _)
WarmProducts(t, ids, acc) ==
    IF ids = <<>> THEN acc
    ELSE IF ~HasProductRow(t, Head(ids)) THEN WarmProducts(t, Tail(ids), acc)
    ELSE LET r == CacheProduct(Head(ids), ProductRow(Head(ids)))
         IN WarmProducts(t, Tail(ids),
                [redis |-> IF r.write
                           THEN Setex(acc.redis, ProductKey(Head(ids)), EffectiveTTL(0), r.text)
                           ELSE acc.redis,
                 vectors |-> acc.vectors,
                 products |-> acc.products + (IF r.ok THEN 1 ELSE 0),
                 errors |-> acc.errors + (IF r.ok THEN 0 ELSE 1)])

\* lines 203-249: one batch.  how says which store call of the batch, if
\* any, raises: the vector query (nothing of the batch is cached) or the
\* product query (its vectors are cached already); either adds batch_size to
\* errors.
WarmBatch(t, batch, batch_size, how, acc) ==
    IF how = "vector_query_fails"
    THEN [acc EXCEPT !.errors = acc.errors + batch_size]
    ELSE LET v == WarmVectors(t, batch, acc)
         IN IF how = "product_query_fails"
            THEN [v EXCEPT !.errors = v.errors + batch_size]
            ELSE WarmProducts(t, batch, v)

BatchEntry(start, batch, how, before, after) ==
    [start |-> start, size |-> Len(batch), outcome |-> how,
     vectors |-> after.vectors - before.vectors,
     products |-> after.products - before.products,
     errors |-> after.errors - before.errors]

\* (a slip: a failed store call ends the loop over the batches)
RECURSIVE WarmBatchesAborting(_, _, _, _, _, _)
WarmBatchesAborting(t, ids, batch_size, plan, start, acc) ==
    IF start > Len(ids) THEN acc
    ELSE LET batch == SubSeq(ids, start, Min(start + batch_size - 1, Len(ids)))
             how == plan[((start - 1) \div batch_size) + 1]
             after == WarmBatch(t, batch, batch_size, how, acc.tally)
             next == [tally |-> after,
                      batches |-> Append(acc.batches,
                                         BatchEntry(start, batch, how, acc.tally, after))]
         IN IF how = "ok"
            THEN WarmBatchesAborting(t, ids, batch_size, plan, start + batch_size, next)
            ELSE next

\* lines 200-253: the batches ids[i : i + batch_size] for i = 0, batch_size,
\* ..., each with the outcome plan gives it; acc is the tally and keyspace so
\* far with one entry per batch gone through
RECURSIVE WarmBatches(_, _, _, _, _, _)
WarmBatches(t, ids, batch_size, plan, start, acc) ==
    IF start > Len(ids) THEN acc
    ELSE LET batch == SubSeq(ids, start, Min(start + batch_size - 1, Len(ids)))
             how == plan[((start - 1) \div batch_size) + 1]
             after == WarmBatch(t, batch, batch_size, how, acc.tally)
         IN WarmBatches(t, ids, batch_size, plan, start + batch_size,
                [tally |-> after,
                 batches |-> Append(acc.batches,
                                    BatchEntry(start, batch, how, acc.tally, after))])

\* connect_postgres of the manager (lines 23-35): raises when the store cannot
\* be reached
ManagerConnect ==
    IF ManagerConnectOk THEN [raised |-> FALSE, conn |-> "open"]
    ELSE [raised |-> TRUE, conn |-> "none"]

\* warm_up_cache(ids, batch_size) on catalog t: the connection is made first
\* when there is none, outside any try; a connection that is closed makes
\* cursor() raise, which the outer except swallows; else the batches run
WarmUpCache(t, ids, batch_size, plan) ==
    LET c == IF mgrConn = "none" THEN ManagerConnect
             ELSE [raised |-> FALSE, conn |-> mgrConn]
        zero == [tally |-> [redis |-> redis, vectors |-> 0, products |-> 0, errors |-> 0],
                 batches |-> <<>>]
    IN IF c.raised THEN [raised |-> TRUE, conn |-> c.conn, cursor |-> FALSE, run |-> zero]
       ELSE IF c.conn = "closed"
       THEN [raised |-> FALSE, conn |-> c.conn, cursor |-> FALSE, run |-> zero]
       ELSE [raised |-> FALSE, conn |-> c.conn, cursor |-> TRUE,
             run |-> WarmBatches(t, ids, batch_size, plan, 1, zero)]

\* ceil(n / b)
BatchCount(n, b) == (n + b - 1) \div b

\* which store call fails: none, or one call of one batch while the store is
\* up; every call while it is not
WarmPlans(n, b) ==
    IF storeState # "up"
    THEN {[j \in 1..BatchCount(n, b) |-> "vector_query_fails"]}
    ELSE {[j \in 1..BatchCount(n, b) |-> "ok"]}
         \cup {[j \in 1..BatchCount(n, b) |-> IF j = f THEN how ELSE "ok"] :
                 f \in 1..BatchCount(n, b),
                 how \in {"vector_query_fails", "product_query_fails"}}

\* product_ids: none, or the first positions
IdLists == {[i \in 1..n |-> i] : n \in {0, MaxIds - 1, MaxIds}}

\* warm_up_cache(ids, batch_size)
DoWarmUpCache(ids, batch_size) ==
    \E plan \in WarmPlans(Len(ids), batch_size) :
    \E r \in {WarmUpCache(store, ids, batch_size, plan)} :
    /\ mgrConn' = r.conn
    /\ redis' = r.run.tally.redis
    /\ lastWrite' = [k \in DOMAIN redis' |->
                        IF k \in DOMAIN redis /\ redis'[k] = redis[k] /\ k \in DOMAIN lastWrite
                        THEN lastWrite[k]
                        ELSE [note |-> "warm_up"]]
    /\ ret' = [op |-> "warm_up_cache", raised |-> r.raised, cursor |-> r.cursor,
               n |-> Len(ids), batch_size |-> batch_size,
               vectors |-> r.run.tally.vectors, products |-> r.run.tally.products,
               errors |-> r.run.tally.errors, batches |-> r.run.batches]
    /\ UNCHANGED <<envVars, storeState, store, instance, svc, pc, req, source,
                   outcome, http, trace, redisUp>>

\* the store goes away or comes back; a connection that was open is closed
\* once the store has gone
StoreOutage ==
    /\ storeState' = IF storeState = "up" THEN "down" ELSE "up"
    /\ mgrConn' = IF mgrConn = "open" /\ storeState = "up"
                  THEN "closed" ELSE mgrConn
    /\ ret' = NoRet
    /\ UNCHANGED <<envVars, store, instance, svc, pc, req, source, outcome, http,
                   trace, redis, redisUp, lastWrite>>

\* a manager made by hand (no connection yet) or by CacheService (connected),
\* over either catalog, the keyspace empty
WarmInit ==
    /\ POSTGRES_AVAILABLE = TRUE
    /\ POSTGRES_URL = "real"
    /\ CACHE_ENABLED = TRUE
    /\ storeState = "up"
    /\ store \in WarmCatalogs
    /\ instance = "manager"
    /\ mgrConn \in {"none", "open"}
    /\ svc = NoService
    /\ pc = "idle"
    /\ req = NoRequest
    /\ source = "unknown"
    /\ outcome = NoOutcome
    /\ http = 0
    /\ trace = NoTrace
    /\ redis = <<>>
    /\ redisUp = TRUE
    /\ ret = NoRet
    /\ lastWrite = <<>>

WarmNext ==
    \/ \E ids \in IdLists, b \in 1..MaxBatch : DoWarmUpCache(ids, b)
    \/ StoreOutage
    \/ RedisChange

WarmSpec == WarmInit /\ [][WarmNext]_vars

-----------------------------------------------------------------------------
(* Claims about warm_up_cache *)

\* the call got as far as the loop over the batches
WarmRan == ret.op = "warm_up_cache" /\ ~ret.raised /\ ret.cursor

\* the positions of batch j of the call
BatchIds(j) ==
    {p \in 1..ret.n : (j - 1) * ret.batch_size < p /\ p <= j * ret.batch_size}

\* the rows of the batch that can be cached
FitIds(j) == {p \in BatchIds(j) : VectorColumn(store, p) \in {"list_fit", "str_fit"}}
ProductIds(j) == {p \in BatchIds(j) : HasProductRow(store, p)}

RECURSIVE TallySum(_)
TallySum(batches) ==
    IF batches = <<>> THEN [vectors |-> 0, products |-> 0, errors |-> 0]
    ELSE LET rest == TallySum(Tail(batches))
         IN [vectors |-> Head(batches).vectors + rest.vectors,
             products |-> Head(batches).products + rest.products,
             errors |-> Head(batches).errors + rest.errors]

\* C12: warm_up_cache over n identifiers with batch size b goes through
\* ceil(n / b) batches in order; a batch whose store call fails adds at least b
\* to errors; every other batch, the later ones included, is gone through and
\* adds the items it caches to the vectors and products counts.
C12_BatchesContinue ==
    WarmRan =>
        /\ Len(ret.batches) = BatchCount(ret.n, ret.batch_size)
        /\ \A j \in 1..Len(ret.batches) :
              /\ ret.batches[j].start = (j - 1) * ret.batch_size + 1
              /\ ret.batches[j].size = Cardinality(BatchIds(j))
              /\ ret.batches[j].outcome # "ok" => ret.batches[j].errors >= ret.batch_size
              /\ (ret.batches[j].outcome = "ok" /\ redisUp) =>
                    /\ ret.batches[j].vectors = Cardinality(FitIds(j))
                    /\ ret.batches[j].products = Cardinality(ProductIds(j))
        /\ TallySum(ret.batches) =
              [vectors |-> ret.vectors, products |-> ret.products, errors |-> ret.errors]

C12_Witness ==
    /\ WarmRan
    /\ redisUp
    /\ Len(ret.batches) = 3
    /\ ret.batches[1].outcome = "vector_query_fails"
    /\ ret.batches[3].outcome = "ok"
    /\ ret.batches[3].vectors = 1
    /\ ret.batches[3].products = 1
    /\ ret.vectors = 1
    /\ ret.errors >= ret.batch_size

\* C13: warm_up_cache never raises, whatever fails, and every failure shows in
\* errors: a call that could not go through its batches reports errors.
C13_WarmUpNeverRaises ==
    ret.op = "warm_up_cache" =>
        /\ ~ret.raised
        /\ (~ret.cursor /\ ret.n > 0) => ret.errors > 0

-----------------------------------------------------------------------------
(* warm_up_cache called again and again over a connection that went stale *)

\* product_ids over the positions of catalog b whose rows hold no embedding
\* of full length: position 1 has a product row, position 2 has no row
StaleIdLists == {<<>>, <<1>>, <<1, 2>>, <<2, 1>>}

\* warm_up_cache(ids, batch_size), called again
WarmAgain == \E ids \in StaleIdLists, b \in 1..MaxBatch : DoWarmUpCache(ids, b)

\* a warm_up_cache over some identifiers none of whose store calls is made to
\* fail
CleanWarmUp ==
    /\ WarmAgain
    /\ ret'.n > 0
    /\ \A j \in 1..Len(ret'.batches) : ret'.batches[j].outcome = "ok"

StaleInit == WarmInit /\ store = "b"

StaleNext ==
    \/ WarmAgain
    \/ StoreOutage
    \/ RedisChange

\* the caller keeps warming up: a call that nothing makes fail is made as long
\* as one can be
StaleSpec == StaleInit /\ [][StaleNext]_vars /\ WF_vars(CleanWarmUp)

\* the last call was a warm_up_cache that cached something
WarmedSomething ==
    /\ ret.op = "warm_up_cache"
    /\ ret.vectors + ret.products > 0

\* C32: the manager's store connection may go stale between operations; once
\* the store is reachable for good (and Redis answers), warm_up_cache calls
\* that keep being made re-establish the connection and cache items again.
C32_StaleConnectionRecovers ==
    <>[](storeState = "up" /\ redisUp) => []<>WarmedSomething

-----------------------------------------------------------------------------
(* ProductIndex: strings, keywords and the score *)

\* A string is the sequence of its characters.
UpperCase ==
    ("A" :> "a") @@ ("B" :> "b") @@ ("C" :> "c") @@ ("O" :> "o") @@ ("P" :> "p")
    @@ ("T" :> "t")

\* str.lower()
Lower(str) ==
    [i \in 1..Len(str) |-> IF str[i] \in DOMAIN UpperCase THEN UpperCase[str[i]] ELSE str[i]]

\* q in text
Contains(text, q) ==
    \E i \in 0..(Len(text) - Len(q)) : SubSeq(text, i + 1, i + Len(q)) = q

\* str.split(): the maximal runs without a blank
RECURSIVE SplitFrom(_, _, _)
SplitFrom(str, i, word) ==
    IF i > Len(str) THEN (IF word = <<>> THEN <<>> ELSE <<word>>)
    ELSE IF str[i] = " "
    THEN (IF word = <<>> THEN <<>> ELSE <<word>>) \o SplitFrom(str, i + 1, <<>>)
    ELSE SplitFrom(str, i + 1, Append(word, str[i]))

Split(str) == SplitFrom(str, 1, <<>>)

\* ' '.join(strs)
RECURSIVE JoinBlank(_)
JoinBlank(strs) ==
    IF strs = <<>> THEN <<>>
    ELSE IF Len(strs) = 1 THEN strs[1]
    ELSE strs[1] \o <<" ">> \o JoinBlank(Tail(strs))

\* ProductIndexConfig: the weights and the threshold, in halves of a point
ExactWeight == 2
PartialWeight == 1
ScoreThreshold == 0

\* f"{title} {' '.join(tags)}".lower()
ItemText(product) == Lower(product.title \o <<" ">> \o JoinBlank(product.tags))

\* (a slip: a keyword that occurs whole also counts for its tokens)
KeywordScoreBoth(text, kw) ==
    (IF Contains(text, Lower(kw)) THEN ExactWeight ELSE 0)
    + (IF \E i \in 1..Len(Split(Lower(kw))) : Contains(text, Split(Lower(kw))[i])
       THEN PartialWeight ELSE 0)

\* what one keyword adds to the score
KeywordScore(text, kw) ==
    IF Contains(text, Lower(kw)) THEN ExactWeight
    ELSE IF \E i \in 1..Len(Split(Lower(kw))) : Contains(text, Split(Lower(kw))[i])
    THEN PartialWeight
    ELSE 0

RECURSIVE ScoreSum(_, _)
ScoreSum(text, keywords) ==
    IF keywords = <<>> THEN 0
    ELSE KeywordScore(text, Head(keywords)) + ScoreSum(text, Tail(keywords))

\* _score_product(product, keywords)
ScoreProduct(product, keywords) == ScoreSum(ItemText(product), keywords)

\* the keys of the analysis that are read, in the order they are read
AnalysisKeys ==
    <<"tags", "captions", "top", "pants", "shoes", "outer", "accessories",
      "overall_style", "detected_style", "colors", "categories">>

\* lines 137-153: the non-empty elements of the values that are lists
RECURSIVE KeywordsFrom(_, _)
KeywordsFrom(analysis, keys) ==
    IF keys = <<>> THEN <<>>
    ELSE (IF Head(keys) \in DOMAIN analysis /\ analysis[Head(keys)].t = "list"
          THEN SelectSeq(analysis[Head(keys)].s, LAMBDA v : v # <<>>)
          ELSE <<>>)
         \o KeywordsFrom(analysis, Tail(keys))

Keywords(analysis) == KeywordsFrom(analysis, AnalysisKeys)

\* the categories of ProductIndexConfig
ConfigCategories ==
    {<<"t", "o", "p">>, <<"p", "a", "n", "t", "s">>, <<"s", "h", "o", "e", "s">>,
     <<"o", "u", "t", "e", "r">>,
     <<"a", "c", "c", "e", "s", "s", "o", "r", "i", "e", "s">>}

Unknown == <<"u", "n", "k", "n", "o", "w", "n">>

\* str(product.get("category") or "").lower() or "unknown"
CategoryOf(product) ==
    IF product.category = <<>> THEN Unknown ELSE Lower(product.category)

\* int(product.get("price") or 0)
PriceOf(product) == IF product.has_price THEN product.price ELSE 0

\* (a slip: the upper bound is taken as exclusive)
PriceWithinExclusive(product, min_price, max_price) ==
    /\ min_price.given => PriceOf(product) >= min_price.val
    /\ max_price.given => PriceOf(product) < max_price.val

\* lines 169-173: both bounds inclusive, each applied when it is not None
PriceWithin(product, min_price, max_price) ==
    /\ ~(min_price.given /\ PriceOf(product) < min_price.val)
    /\ ~(max_price.given /\ PriceOf(product) > max_price.val)

\* lines 155-157: the lowercased tags of exclude_tags that are not empty
ExcludeSet(exclude_tags) ==
    {Lower(exclude_tags[i]) : i \in {j \in 1..Len(exclude_tags) : exclude_tags[j] # <<>>}}

\* (a slip: the tags of the record are compared as they are written)
ExcludedExactCase(product, exclude) ==
    exclude # {} /\ exclude \cap {product.tags[i] : i \in 1..Len(product.tags)} # {}

\* line 175
Excluded(product, exclude) ==
    exclude # {} /\ exclude \cap {Lower(product.tags[i]) : i \in 1..Len(product.tags)} # {}

-----------------------------------------------------------------------------
(* ProductIndex.find_similar and ProductIndex.random_products *)

\* (a slip: a record that scores the threshold is kept)
AboveThresholdInclusive(score) == score >= ScoreThreshold

\* line 166 continues when score <= score_threshold
AboveThreshold(score) == score > ScoreThreshold

\* lines 178-183: the copy of the record that goes into its bucket
Item(product, score, include_score) ==
    [rec |-> product, has_score |-> include_score,
     score |-> IF include_score THEN score ELSE 0]

\* float(it.get("score", 0.0))
SortKey(it) == IF it.has_score THEN it.score ELSE 0

\* (a slip: the item goes before the ones of equal key)
InsertBeforeEqual(sorted, it) ==
    LET k == Cardinality({i \in 1..Len(sorted) : SortKey(sorted[i]) > SortKey(it)})
    IN SubSeq(sorted, 1, k) \o <<it>> \o SubSeq(sorted, k + 1, Len(sorted))

\* the place of it in a sequence sorted by descending key: after every item
\* whose key is not less
InsertDesc(sorted, it) ==
    LET k == Cardinality({i \in 1..Len(sorted) : SortKey(sorted[i]) >= SortKey(it)})
    IN SubSeq(sorted, 1, k) \o <<it>> \o SubSeq(sorted, k + 1, Len(sorted))

\* items.sort(key=..., reverse=True): descending, equal keys in their order
RECURSIVE SortDescInto(_, _)
SortDescInto(sorted, items) ==
    IF items = <<>> THEN sorted
    ELSE SortDescInto(InsertDesc(sorted, Head(items)), Tail(items))

SortDesc(items) == SortDescInto(<<>>, items)

\* items[: max_per_category]
Truncate(items, max_per_category) ==
    IF max_per_category >= 0
    THEN SubSeq(items, 1, Min(max_per_category, Len(items)))
    ELSE SubSeq(items, 1, Len(items) + max_per_category)

\* lines 160-176: the record is kept
Survives(product, keywords, min_price, max_price, exclude) ==
    /\ CategoryOf(product) \in ConfigCategories
    /\ AboveThreshold(ScoreProduct(product, keywords))
    /\ PriceWithin(product, min_price, max_price)
    /\ ~Excluded(product, exclude)

\* the items of category cat in catalog order
RECURSIVE Bucket(_, _, _, _, _, _, _)
Bucket(products, cat, keywords, include_score, min_price, max_price, exclude) ==
    IF products = <<>> THEN <<>>
    ELSE (IF /\ CategoryOf(Head(products)) = cat
             /\ Survives(Head(products), keywords, min_price, max_price, exclude)
          THEN <<Item(Head(products), ScoreProduct(Head(products), keywords), include_score)>>
          ELSE <<>>)
         \o Bucket(Tail(products), cat, keywords, include_score, min_price, max_price,
                   exclude)

\* find_similar(analysis, max_per_category=a.max_per_category, ...) over the
\* snapshot products
FindSimilar(products, a) ==
    [cat \in ConfigCategories |->
        Truncate(SortDesc(Bucket(products, cat, Keywords(a.analysis), a.include_score,
                                 a.min_price, a.max_price, ExcludeSet(a.exclude_tags))),
                 a.max_per_category)]

\* str.strip()
RECURSIVE Strip(_)
Strip(str) ==
    IF str = <<>> THEN str
    ELSE IF Head(str) = " " THEN Strip(Tail(str))
    ELSE IF str[Len(str)] = " " THEN Strip(SubSeq(str, 1, Len(str) - 1))
    ELSE str

\* _db_normalize_slot, _db_normalize_gender (lines 14-24)
NormalizeSlot(raw) == IF Strip(Lower(raw)) = <<>> THEN Unknown ELSE Strip(Lower(raw))

RandomLimitMax == 100

\* (a slip: only the upper end is clamped)
ClampLimitUpper(limit) == Min(limit, RandomLimitMax)

\* max(1, min(int(limit), 100))
ClampLimit(limit) == IF Min(limit, RandomLimitMax) < 1 THEN 1 ELSE Min(limit, RandomLimitMax)

\* lines 88-93: the records of the category and the gender asked for
Filtered(products, category, gender) ==
    SelectSeq(products,
              LAMBDA p : /\ category # <<>> => NormalizeSlot(p.category) = NormalizeSlot(category)
                         /\ gender # <<>> => NormalizeSlot(p.gender) = NormalizeSlot(gender))

\* lines 98-108: the public fields
Projected(product) ==
    [id |-> product.id, title |-> product.title, price |-> PriceOf(product),
     tags |-> product.tags,
     category |-> IF product.category = <<>> THEN <<"t", "o", "p">> ELSE product.category]

\* the orders random.shuffle may leave n records in
Shuffles(n) == {f \in [1..n -> 1..n] : \A i, j \in 1..n : i # j => f[i] # f[j]}

\* random_products(limit, category, gender) when the shuffle leaves order f
RandomProducts(products, limit, category, gender, f) ==
    LET chosen == Filtered(products, category, gender)
    IN [i \in 1..Min(ClampLimit(limit), Len(chosen)) |-> Projected(chosen[f[i]])]

-----------------------------------------------------------------------------
(* ProductIndex._products and ProductIndex.stats *)

\* (a slip: the snapshot is handed out whatever the source reports)
IndexProductsUnchecked(state, catalog) ==
    [raised |-> FALSE, error |-> "", products |-> catalog, shared |-> FALSE]

\* (a slip: the list of the source itself is handed out)
IndexProductsShared(state, catalog) ==
    IF state # "up"
    THEN [raised |-> TRUE, error |-> "catalog_unavailable", products |-> <<>>,
          shared |-> FALSE]
    ELSE [raised |-> FALSE, error |-> "", products |-> catalog, shared |-> TRUE]

\* _products(): RuntimeError unless the source is available, else
\* list(db_pos_recommender.products), a new list of the same records
IndexProducts(state, catalog) ==
    IF state # "up"
    THEN [raised |-> TRUE, error |-> "catalog_unavailable", products |-> <<>>,
          shared |-> FALSE]
    ELSE [raised |-> FALSE, error |-> "", products |-> catalog, shared |-> FALSE]

\* the order f of a list
Shuffled(list, f) == [i \in 1..Len(list) |-> list[f[i]]]

\* the list of the source after random_products: random.shuffle works in
\* place on the list it is given, which is the snapshot list only when neither
\* filter has built another
CatalogAfterShuffle(catalog, snapshot, category, gender, f) ==
    IF snapshot.shared /\ category = <<>> /\ gender = <<>> /\ ~snapshot.raised
    THEN Shuffled(catalog, f)
    ELSE catalog

\* round(x, 0) of num / den: to the nearest integer, a half to the even one
RoundHalfEven(num, den) ==
    LET q == num \div den
        r == num % den
    IN IF 2 * r < den THEN q
       ELSE IF 2 * r > den THEN q + 1
       ELSE IF q % 2 = 0 THEN q ELSE q + 1

\* (a slip: the division is made whatever the total)
AveragePriceUnguarded(total_price, total) ==
    IF total = 0 THEN [raised |-> TRUE, val |-> 0]
    ELSE [raised |-> FALSE, val |-> RoundHalfEven(total_price, total)]

\* int(round(total_price / total, 0)) if total > 0 else 0
AveragePrice(total_price, total) ==
    IF total > 0 THEN [raised |-> FALSE, val |-> RoundHalfEven(total_price, total)]
    ELSE [raised |-> FALSE, val |-> 0]

\* str(item.get("category", "unknown")), <<>> being a record without category
StatsCategory(product) == IF product.category = <<>> THEN Unknown ELSE product.category

RECURSIVE TotalPrice(_)
TotalPrice(products) ==
    IF products = <<>> THEN 0 ELSE PriceOf(Head(products)) + TotalPrice(Tail(products))

\* stats() over the snapshot products
Stats(products) ==
    LET prices == {PriceOf(products[i]) : i \in 1..Len(products)}
        avg == AveragePrice(TotalPrice(products), Len(products))
    IN IF avg.raised THEN [raised |-> TRUE, error |-> "zero_division", value |-> <<>>]
       ELSE [raised |-> FALSE, error |-> "",
             value |->
                [totalProducts |-> Len(products),
                 categories |->
                    [c \in {StatsCategory(products[i]) : i \in 1..Len(products)} |->
                        Cardinality({i \in 1..Len(products) : StatsCategory(products[i]) = c})],
                 priceRange |->
                    [min |-> IF prices = {} THEN 0
                             ELSE CHOOSE m \in prices : \A v \in prices : m <= v,
                     max |-> CHOOSE m \in prices \cup {0} : \A v \in prices \cup {0} : m >= v,
                     average |-> avg.val]]]

-----------------------------------------------------------------------------
(* The product index in use *)

Product(id, title, tags, category, price, gender) ==
    [id |-> id, title |-> title, tags |-> tags, category |-> category,
     has_price |-> price >= 0, price |-> IF price >= 0 THEN price ELSE 0,
     gender |-> gender]

\* the snapshots of db_pos_recommender.products; a price below 0 stands for a
\* record without price
Catalogs ==
    {<<>>,
     <<Product(1, <<"a", "b">>, <<<<"c">>>>, <<"t", "o", "p">>, 2, <<"f">>),
       Product(2, <<"a", " ", "b">>, <<<<"A">>>>, <<"T", "o", "p">>, 1, <<"m">>),
       Product(3, <<"b">>, <<<<"C">>, <<>>>>, <<"T", "O", "P">>, -1, <<>>),
       Product(4, <<"c">>, <<<<"c">>>>, <<"p", "a", "n", "t", "s">>, 3, <<"F">>),
       Product(5, <<"a">>, <<>>, <<>>, 1, <<"f">>)>>,
     <<Product(1, <<"a">>, <<<<>>>>, <<"t", "o", "p">>, 0, <<"f">>),
       Product(2, <<"c", " ", "a">>, <<<<"B">>>>, <<" ", "t", "o", "p">>, 3, <<"f", " ">>),
       Product(3, <<"b">>, <<<<"a">>, <<"C">>>>, <<"p", "a", "n", "t", "s">>, 2, <<"m">>),
       Product(4, <<"a", "b">>, <<>>, <<"c", "a", "p">>, 1, <<>>)>>}

ListValue(strs) == [t |-> "list", s |-> strs]
ScalarValue(str) == [t |-> "scalar", s |-> <<str>>]

\* the style analyses
Analyses ==
    {<<>>,
     ("tags" :> ListValue(<<<<"a">>>>)),
     ("tags" :> ListValue(<<<<"a", " ", "b">>>>)),
     ("captions" :> ListValue(<<<<"c">>, <<>>>>)) @@ ("colors" :> ScalarValue(<<"a">>)),
     ("top" :> ListValue(<<<<"A">>, <<"b">>>>)) @@ ("tags" :> ListValue(<<<<"B">>>>)),
     ("tags" :> ListValue(<<<<"a", " ", "b">>, <<"b">>, <<"B">>>>))
        @@ ("captions" :> ListValue(<<<<"t">>>>))}

NoBound == [given |-> FALSE, val |-> 0]
PriceBounds == {NoBound} \cup {[given |-> TRUE, val |-> v] : v \in 0..MaxPrice}

ExcludeLists == {<<>>, <<<<"A">>>>, <<<<"c">>, <<>>>>, <<<<>>>>}

FindArgs ==
    [analysis : Analyses, max_per_category : 0..MaxPerCat, include_score : BOOLEAN,
     min_price : PriceBounds, max_price : PriceBounds, exclude_tags : ExcludeLists]

RandomLimits == (-1..MaxShown) \cup {RandomLimitMax + 1}
RandomCategories ==
    {<<>>, <<"t", "o", "p">>, <<"T", "o", "p", " ">>, <<"p", "a", "n", "t", "s">>,
     Unknown, <<"c", "a", "p">>}
RandomGenders == {<<>>, <<"F">>}

\* stats()
DoStats ==
    /\ ret = NoRet
    /\ LET snapshot == IndexProducts(storeState, store)
       IN ret' = IF snapshot.raised
                 THEN [op |-> "stats", raised |-> TRUE, error |-> snapshot.error,
                       value |-> <<>>]
                 ELSE [op |-> "stats"] @@ Stats(snapshot.products)
    /\ UNCHANGED <<envVars, searchVars, redis, redisUp, lastWrite>>

\* find_similar(...): every item is a copy of its record, dict(product)
DoFindSimilar(a) ==
    /\ ret = NoRet
    /\ LET snapshot == IndexProducts(storeState, store)
       IN ret' = IF snapshot.raised
                 THEN [op |-> "find_similar", raised |-> TRUE, error |-> snapshot.error,
                       args |-> a, value |-> <<>>]
                 ELSE [op |-> "find_similar", raised |-> FALSE, error |-> "",
                       args |-> a, value |-> FindSimilar(snapshot.products, a)]
    /\ UNCHANGED <<envVars, searchVars, redis, redisUp, lastWrite>>

\* random_products(limit=limit, category=category, gender=gender)
DoRandomProducts(limit, category, gender) ==
    /\ ret = NoRet
    /\ LET snapshot == IndexProducts(storeState, store)
       IN \E f \in Shuffles(Len(Filtered(snapshot.products, category, gender))) :
            /\ ret' = IF snapshot.raised
                      THEN [op |-> "random_products", raised |-> TRUE,
                            error |-> snapshot.error, limit |-> limit,
                            category |-> category, gender |-> gender, value |-> <<>>]
                      ELSE [op |-> "random_products", raised |-> FALSE, error |-> "",
                            limit |-> limit, category |-> category, gender |-> gender,
                            value |-> RandomProducts(snapshot.products, limit, category,
                                                     gender, f)]
            /\ store' = CatalogAfterShuffle(store, snapshot, category, gender, f)
    /\ UNCHANGED <<envVars, storeState, instance, mgrConn, svc, pc, req, source, outcome,
                   http, trace, redis, redisUp, lastWrite>>

\* the caller has its answer
IndexReturn ==
    /\ ret # NoRet
    /\ ret' = NoRet
    /\ UNCHANGED <<envVars, searchVars, redis, redisUp, lastWrite>>

\* the upstream recommender loads another snapshot, or loses or regains it
CatalogChange ==
    /\ ret = NoRet
    /\ \/ /\ store' \in Catalogs \ {store}
          /\ UNCHANGED storeState
       \/ /\ storeState' = IF storeState = "up" THEN "down" ELSE "up"
          /\ UNCHANGED store
    /\ UNCHANGED <<envVars, instance, mgrConn, svc, pc, req, source, outcome, http,
                   trace, cacheVars>>

IndexInit ==
    /\ POSTGRES_AVAILABLE = TRUE
    /\ POSTGRES_URL = "real"
    /\ CACHE_ENABLED = FALSE
    /\ storeState = "up"
    /\ store \in Catalogs
    /\ instance = "none"
    /\ mgrConn = "none"
    /\ svc = NoService
    /\ pc = "idle"
    /\ req = NoRequest
    /\ source = "unknown"
    /\ outcome = NoOutcome
    /\ http = 0
    /\ trace = NoTrace
    /\ redis = <<>>
    /\ redisUp = TRUE
    /\ ret = NoRet
    /\ lastWrite = <<>>

IndexNext ==
    \/ DoStats
    \/ \E a \in FindArgs : DoFindSimilar(a)
    \/ \E limit \in RandomLimits, category \in RandomCategories, gender \in RandomGenders :
            DoRandomProducts(limit, category, gender)
    \/ IndexReturn
    \/ CatalogChange

IndexSpec == IndexInit /\ [][IndexNext]_vars

-----------------------------------------------------------------------------
(* Claims about the product index *)

FindRan == ret.op = "find_similar" /\ ~ret.raised
RandomRan == ret.op = "random_products" /\ ~ret.raised

\* the score of a returned item under the profile of the call
ScoreOf(it) == ScoreProduct(it.rec, Keywords(ret.args.analysis))

\* the records of a bucket, in its order
Records(items) == [i \in 1..Len(items) |-> items[i].rec]

\* the place of a record in the snapshot
PlaceOf(rec) == CHOOSE k \in 1..Len(store) : store[k] = rec

\* C14: each bucket returned by find_similar holds at most max_per_category
\* records, and the scores of its records do not increase along the bucket.
C14_BucketsBoundedAndOrdered ==
    FindRan =>
        \A cat \in ConfigCategories :
            /\ Len(ret.value[cat]) <= ret.args.max_per_category
            /\ \A i \in 1..(Len(ret.value[cat]) - 1) :
                  ScoreOf(ret.value[cat][i]) >= ScoreOf(ret.value[cat][i + 1])

\* C15: called with include_score = false, find_similar returns the records
\* the call with include_score = true returns, in the same order.
C15_SortIgnoresEmission ==
    (FindRan /\ ~ret.args.include_score) =>
        \A cat \in ConfigCategories :
            /\ \A i \in 1..Len(ret.value[cat]) : ~ret.value[cat][i].has_score
            /\ Records(ret.value[cat]) =
                  Records(FindSimilar(store, [ret.args EXCEPT !.include_score = TRUE])[cat])

\* the price is inside the bounds that are given; a missing price counts as 0
InsideBounds(rec, min_price, max_price) ==
    LET price == IF rec.has_price THEN rec.price ELSE 0
    IN /\ min_price.given => min_price.val <= price
       /\ max_price.given => price <= max_price.val

LowerTags(tags) == {Lower(tags[i]) : i \in 1..Len(tags)}

\* C17 as stated: with exclude_tags given, no returned record has a tag equal,
\* ignoring case, to a tag of exclude_tags.
C17_NoExcludedTag ==
    (FindRan /\ ret.args.exclude_tags # <<>>) =>
        \A cat \in ConfigCategories : \A i \in 1..Len(ret.value[cat]) :
            LowerTags(ret.value[cat][i].rec.tags) \cap LowerTags(ret.args.exclude_tags) = {}

\* C17 amended: with exclude_tags given, no returned record has a tag equal,
\* ignoring case, to a non-empty tag of exclude_tags.
C17_NoExcludedNonEmptyTag ==
    (FindRan /\ ret.args.exclude_tags # <<>>) =>
        \A cat \in ConfigCategories : \A i \in 1..Len(ret.value[cat]) :
            LowerTags(ret.value[cat][i].rec.tags)
                \cap (LowerTags(ret.args.exclude_tags) \ {<<>>}) = {}

C17_Witness ==
    /\ FindRan
    /\ <<>> \in LowerTags(ret.args.exclude_tags)
    /\ \E cat \in ConfigCategories : \E i \in 1..Len(ret.value[cat]) :
          <<>> \in LowerTags(ret.value[cat][i].rec.tags)
    /\ \E k \in 1..Len(store) :
          /\ Survives(store[k], Keywords(ret.args.analysis), ret.args.min_price,
                      ret.args.max_price, {})
          /\ \E t \in 1..Len(store[k].tags), e \in 1..Len(ret.args.exclude_tags) :
                /\ store[k].tags[t] # ret.args.exclude_tags[e]
                /\ Lower(store[k].tags[t]) = Lower(ret.args.exclude_tags[e])

\* C18: find_similar returns a record only if its category, lowercased, is a
\* configured category and its score exceeds the threshold, and it returns it
\* in the bucket of that category.
C18_RecognizedAndScoring ==
    FindRan =>
        /\ DOMAIN ret.value = ConfigCategories
        /\ \A cat \in DOMAIN ret.value : \A i \in 1..Len(ret.value[cat]) :
              /\ ret.value[cat][i].rec.category # <<>>
              /\ Lower(ret.value[cat][i].rec.category) = cat
              /\ ScoreOf(ret.value[cat][i]) > ScoreThreshold

C18_Witness ==
    /\ FindRan
    /\ \E cat \in ConfigCategories : \E i \in 1..Len(ret.value[cat]) :
          ret.value[cat][i].rec.category # cat
    /\ \E k \in 1..Len(store) :
          /\ CategoryOf(store[k]) \in ConfigCategories
          /\ ScoreProduct(store[k], Keywords(ret.args.analysis)) = ScoreThreshold
    /\ \E k \in 1..Len(store) :
          /\ CategoryOf(store[k]) \notin ConfigCategories
          /\ ScoreProduct(store[k], Keywords(ret.args.analysis)) > ScoreThreshold

\* C19: in a bucket, records of equal score are in catalog order.
C19_TiesInCatalogOrder ==
    FindRan =>
        \A cat \in ConfigCategories : \A i, j \in 1..Len(ret.value[cat]) :
            (i < j /\ ScoreOf(ret.value[cat][i]) = ScoreOf(ret.value[cat][j])) =>
                PlaceOf(ret.value[cat][i].rec) < PlaceOf(ret.value[cat][j].rec)

C19_Witness ==
    /\ FindRan
    /\ ret.args.include_score
    /\ \E cat \in ConfigCategories :
          /\ Len(ret.value[cat]) = 3
          /\ PlaceOf(ret.value[cat][1].rec) > PlaceOf(ret.value[cat][2].rec)
          /\ ScoreOf(ret.value[cat][2]) = ScoreOf(ret.value[cat][3])

\* the snapshot records whose normalized category is that of c
Matching(c) ==
    {k \in 1..Len(store) : NormalizeSlot(store[k].category) = NormalizeSlot(c)}

\* limit clamped to 1..100
Clamped(limit) ==
    IF limit < 1 THEN 1 ELSE IF limit > RandomLimitMax THEN RandomLimitMax ELSE limit

\* a call of random_products with a category and no gender
RandomOfCategory == RandomRan /\ ret.category # <<>> /\ ret.gender = <<>>

\* C20 as stated: random_products(limit, category = c) returns
\* min(clamp(limit, 1, 100), number of matching records) records, and the
\* normalized category of every returned record is the normalized c.
C20_CountAndCategory ==
    RandomOfCategory =>
        /\ Len(ret.value) = Min(Clamped(ret.limit), Cardinality(Matching(ret.category)))
        /\ \A i \in 1..Len(ret.value) :
              NormalizeSlot(ret.value[i].category) = NormalizeSlot(ret.category)

\* C20 amended: the count is as stated, and every returned record is the
\* projection of a snapshot record whose normalized category is the normalized
\* c, each such record at most once.
C20_CountAndSourceCategory ==
    RandomOfCategory =>
        /\ Len(ret.value) = Min(Clamped(ret.limit), Cardinality(Matching(ret.category)))
        /\ \A i \in 1..Len(ret.value) :
              \E k \in Matching(ret.category) : ret.value[i] = Projected(store[k])
        /\ \A i, j \in 1..Len(ret.value) : i # j => ret.value[i] # ret.value[j]

C20_Witness ==
    /\ RandomOfCategory
    /\ ret.limit < 1
    /\ Len(ret.value) = 1
    /\ Cardinality(Matching(ret.category)) > 1
    /\ ret.value[1].category # ret.category

IndexOps == {"stats", "find_similar", "random_products"}

\* C21: stats() on an empty, available catalog does not raise and returns
\* totalProducts 0 and a price range of min = max = average = 0.
C21_EmptyStats ==
    (ret.op = "stats" /\ storeState = "up" /\ store = <<>>) =>
        /\ ~ret.raised
        /\ ret.value.totalProducts = 0
        /\ ret.value.priceRange = [min |-> 0, max |-> 0, average |-> 0]

C21_Witness ==
    /\ ret.op = "stats"
    /\ storeState = "up"
    /\ store = <<>>
    /\ ~ret.raised
    /\ ret.value.categories = <<>>

\* C22: while the source reports unavailable, stats, random_products and
\* find_similar fail with the catalog-unavailable error and return nothing.
C22_UnavailableFails ==
    (ret.op \in IndexOps /\ storeState # "up") =>
        /\ ret.raised
        /\ ret.error = "catalog_unavailable"
        /\ ret.value = <<>>

C22_Witness ==
    /\ ret.op \in IndexOps
    /\ storeState # "up"
    /\ store # <<>>
    /\ ret.raised

\* C29: a step of stats, random_products or find_similar leaves the catalog
\* of the source as it was: the same records in the same order.
C29_CatalogUnchanged == [][ret'.op \in IndexOps => store' = store]_vars

C29_Witness ==
    /\ ret.op = "random_products"
    /\ ~ret.raised
    /\ ret.category = <<>>
    /\ ret.gender = <<>>
    /\ Len(ret.value) > 1
    /\ ret.value[1].id > ret.value[2].id

\* the keyword occurs, lowercased, in the lowercased title and tags
OccursIn(product, kw) ==
    LET blob == Lower(product.title \o <<" ">> \o JoinBlank(product.tags))
    IN \E i \in 0..(Len(blob) - Len(kw)) :
          \A j \in 1..Len(kw) : blob[i + j] = Lower(kw)[j]

\* a token of the keyword occurs in the title and tags
TokenOccursIn(product, kw) ==
    \E i \in 1..Len(Split(Lower(kw))) : OccursIn(product, Split(Lower(kw))[i])

\* C30: the score of a record is exact_weight for every keyword that occurs
\* in its title and tags, plus partial_weight for every other keyword a token
\* of which occurs there, keywords counted with multiplicity.
C30_ScoreIsWeightedCount ==
    (FindRan /\ ret.args.include_score) =>
        \A cat \in ConfigCategories : \A i \in 1..Len(ret.value[cat]) :
            LET kws == Keywords(ret.args.analysis)
                rec == ret.value[cat][i].rec
                exact == {k \in 1..Len(kws) : OccursIn(rec, kws[k])}
                partial == {k \in 1..Len(kws) : k \notin exact /\ TokenOccursIn(rec, kws[k])}
            IN ret.value[cat][i].score =
                  ExactWeight * Cardinality(exact) + PartialWeight * Cardinality(partial)

C30_Witness ==
    /\ FindRan
    /\ ret.args.include_score
    /\ \E cat \in ConfigCategories : \E i \in 1..Len(ret.value[cat]) :
          LET kws == Keywords(ret.args.analysis)
              rec == ret.value[cat][i].rec
          IN /\ \E k, l \in 1..Len(kws) :
                   k # l /\ Lower(kws[k]) = Lower(kws[l]) /\ OccursIn(rec, kws[k])
             /\ \E k \in 1..Len(kws) : ~OccursIn(rec, kws[k]) /\ TokenOccursIn(rec, kws[k])
             /\ \E k \in 1..Len(kws) : ~OccursIn(rec, kws[k]) /\ ~TokenOccursIn(rec, kws[k])

-----------------------------------------------------------------------------
(* The life of the cache manager: lifespan and CacheService *)

\* what the process did so far: the managers made, and per get_instance call
\* the manager it returned, 0 for None, else the number of the manager
NoLife == [built |-> 0, handed |-> <<>>]

\* one call of CacheService.get_instance
Called ==
    LET g == GetInstance
        n == IF g.built THEN trace.built + 1 ELSE trace.built
    IN /\ instance' = g.instance
       /\ mgrConn' = g.conn
       /\ trace' = [built |-> n,
                    handed |-> Append(trace.handed, IF g.manager = "none" THEN 0 ELSE n)]

\* lifespan, up to the yield: get_instance when CACHE_ENABLED is true
Startup ==
    /\ pc = "before"
    /\ pc' = "running"
    /\ IF CACHE_ENABLED THEN Called ELSE UNCHANGED <<instance, mgrConn, trace>>
    /\ UNCHANGED <<envVars, storeState, store, svc, req, source, outcome, http, cacheVars>>

\* a request asks for the manager
DoGetInstance ==
    /\ pc = "running"
    /\ Len(trace.handed) < MaxCalls
    /\ Called
    /\ UNCHANGED <<envVars, storeState, store, svc, pc, req, source, outcome, http,
                   cacheVars>>

\* lifespan, after the yield: CacheService.close_connections()
Shutdown ==
    /\ pc = "running"
    /\ pc' = "stopped"
    /\ instance' = CloseConnections.instance
    /\ mgrConn' = CloseConnections.conn
    /\ UNCHANGED <<envVars, storeState, store, svc, req, source, outcome, http, trace,
                   cacheVars>>

\* the durable store becomes reachable or unreachable
Reachability ==
    /\ pc # "stopped"
    /\ storeState' = IF storeState = "up" THEN "down" ELSE "up"
    /\ UNCHANGED <<envVars, store, instance, mgrConn, svc, pc, req, source, outcome, http,
                   trace, cacheVars>>

LifeInit ==
    /\ POSTGRES_AVAILABLE \in BOOLEAN
    /\ POSTGRES_URL \in {"", "placeholder", "real"}
    /\ CACHE_ENABLED \in BOOLEAN
    /\ storeState \in {"up", "down"}
    /\ store = <<>>
    /\ instance = "none"
    /\ mgrConn = "none"
    /\ svc = NoService
    /\ pc = "before"
    /\ req = NoRequest
    /\ source = "unknown"
    /\ outcome = NoOutcome
    /\ http = 0
    /\ trace = NoLife
    /\ redis = <<>>
    /\ redisUp = TRUE
    /\ ret = NoRet
    /\ lastWrite = <<>>

LifeNext ==
    \/ Startup
    \/ DoGetInstance
    \/ Shutdown
    \/ Reachability

LifeSpec == LifeInit /\ [][LifeNext]_vars

-----------------------------------------------------------------------------
(* get_instance and close_connections in any order, one call at a time.  The
   managers are numbered in the order in which get_instance made them; closed
   are the managers close_connections dropped, leaked those of them whose
   disconnect raised. *)

NoReset == [calls |-> 0, built |-> 0, closed |-> {}, leaked |-> {}]

NoCall ==
    [op |-> "none", manager |-> 0, fresh |-> FALSE, before |-> "none",
     reachable |-> FALSE, raised |-> FALSE]

\* CacheService.get_instance()
GetAgain ==
    /\ trace.calls < MaxCalls
    /\ LET g == GetInstance
           n == IF g.built THEN trace.built + 1 ELSE trace.built
       IN /\ instance' = g.instance
          /\ mgrConn' = g.conn
          /\ trace' = [trace EXCEPT !.calls = @ + 1, !.built = n]
          /\ ret' = [op |-> "get_instance",
                     manager |-> IF g.manager = "none" THEN 0 ELSE n,
                     fresh |-> g.built, before |-> instance,
                     reachable |-> ManagerConnectOk, raised |-> FALSE]
    /\ UNCHANGED <<envVars, storeState, store, svc, pc, req, source, outcome, http,
                   redis, redisUp, lastWrite>>

\* CacheService.close_connections(), the disconnect raising or not
DoCloseConnections(disconnect_raises) ==
    /\ trace.calls < MaxCalls
    /\ LET c == CloseConnectionsOn(disconnect_raises)
       IN /\ instance' = c.instance
          /\ mgrConn' = c.conn
          /\ trace' = [trace EXCEPT !.calls = @ + 1,
                                    !.closed = IF instance = "none" THEN @
                                               ELSE @ \cup {trace.built},
                                    !.leaked = IF instance # "none" /\ disconnect_raises
                                               THEN @ \cup {trace.built} ELSE @]
          /\ ret' = [op |-> "close_connections", manager |-> 0, fresh |-> FALSE,
                     before |-> instance, reachable |-> ManagerConnectOk,
                     raised |-> disconnect_raises /\ instance # "none"]
    /\ UNCHANGED <<envVars, storeState, store, svc, pc, req, source, outcome, http,
                   redis, redisUp, lastWrite>>

ResetInit ==
    /\ POSTGRES_AVAILABLE \in BOOLEAN
    /\ POSTGRES_URL \in {"", "placeholder", "real"}
    /\ CACHE_ENABLED \in BOOLEAN
    /\ storeState \in {"up", "down"}
    /\ store = <<>>
    /\ instance = "none"
    /\ mgrConn = "none"
    /\ svc = NoService
    /\ pc = "running"
    /\ req = NoRequest
    /\ source = "unknown"
    /\ outcome = NoOutcome
    /\ http = 0
    /\ trace = NoReset
    /\ redis = <<>>
    /\ redisUp = TRUE
    /\ ret = NoCall
    /\ lastWrite = <<>>

ResetNext ==
    \/ GetAgain
    \/ \E r \in BOOLEAN : DoCloseConnections(r)
    \/ Reachability

ResetSpec == ResetInit /\ [][ResetNext]_vars

\* C35: get_instance hands out no manager whose initialisation failed and none
\* that close_connections dropped: after a failed initialisation and after
\* close_connections, also when the disconnect raised, _instance is cleared,
\* and the next get_instance call constructs anew.
C35_NoFailedOrClosedManager ==
    /\ instance = "none" \/ trace.built \notin trace.closed
    /\ ret.op = "get_instance" =>
          /\ ret.manager # 0 =>
                /\ ret.manager = trace.built
                /\ ret.manager \notin trace.closed
                /\ instance = "manager"
                /\ mgrConn = "open"
          /\ ret.manager = 0 => instance = "none"
          /\ (/\ ret.before = "none"
              /\ CACHE_ENABLED
              /\ POSTGRES_AVAILABLE) => ret.fresh = ret.reachable
    /\ ret.op = "close_connections" => instance = "none"

C35_Witness ==
    /\ ret.op = "get_instance"
    /\ ret.fresh
    /\ ret.manager = 2
    /\ trace.closed = {1}
    /\ trace.leaked = {1}
    /\ trace.calls = MaxCalls

-----------------------------------------------------------------------------
(* CacheService.get_instance called from several threads: root and
   cache_status are plain functions, which the server runs on its thread pool.
   A call is a sequence of steps between which another thread may run; the
   managers are numbered in the order of their construction. *)

Threads == 1..2

NoRace == [calls |-> 0, built |-> 0, failed |-> 0, opened |-> 0]

\* no manager is 0
NotHanded == [done |-> FALSE, manager |-> 0]

\* a thread enters get_instance
Enter(t) ==
    /\ pc[t] = "idle"
    /\ trace.calls < MaxCalls
    /\ trace' = [trace EXCEPT !.calls = @ + 1]
    /\ pc' = [pc EXCEPT ![t] = "check"]
    /\ ret' = [ret EXCEPT ![t] = NotHanded]
    /\ UNCHANGED <<envVars, storeState, store, instance, mgrConn, svc, req, source,
                   outcome, http, redis, redisUp, lastWrite>>

\* line 41: if cls._instance is None
CheckInstance(t) ==
    /\ pc[t] = "check"
    /\ pc' = [pc EXCEPT ![t] = IF instance = 0 THEN "construct" ELSE "return"]
    /\ UNCHANGED <<envVars, storeState, store, instance, mgrConn, svc, req, source,
                   outcome, http, trace, cacheVars>>

\* lines 43-47: cls._instance = RedisVectorCacheManager(...), which has no
\* store connection yet
Construct(t) ==
    /\ pc[t] = "construct"
    /\ instance' = trace.built + 1
    /\ mgrConn' = Append(mgrConn, "none")
    /\ trace' = [trace EXCEPT !.built = @ + 1]
    /\ pc' = [pc EXCEPT ![t] = "connect"]
    /\ UNCHANGED <<envVars, storeState, store, svc, req, source, outcome, http,
                   cacheVars>>

\* lines 48-52: cls._instance.connect_postgres() on whatever _instance is by
\* now; a failure (no manager there any more, or the store out of reach) is
\* caught and _instance dropped
ConnectInstance(t) ==
    /\ pc[t] = "connect"
    /\ IF instance # 0 /\ ManagerConnectOk
       THEN /\ mgrConn' = [mgrConn EXCEPT ![instance] = "open"]
            /\ trace' = [trace EXCEPT !.opened = @ + 1]
            /\ instance' = instance
       ELSE /\ instance' = 0
            /\ trace' = [trace EXCEPT !.failed = @ + 1]
            /\ mgrConn' = mgrConn
    /\ pc' = [pc EXCEPT ![t] = "return"]
    /\ UNCHANGED <<envVars, storeState, store, svc, req, source, outcome, http,
                   cacheVars>>

\* line 54: return cls._instance
ReturnInstance(t) ==
    /\ pc[t] = "return"
    /\ ret' = [ret EXCEPT ![t] = [done |-> TRUE, manager |-> instance]]
    /\ pc' = [pc EXCEPT ![t] = "idle"]
    /\ UNCHANGED <<envVars, storeState, store, instance, mgrConn, svc, req, source,
                   outcome, http, trace, redis, redisUp, lastWrite>>

RaceInit ==
    /\ POSTGRES_AVAILABLE = TRUE
    /\ POSTGRES_URL = "real"
    /\ CACHE_ENABLED = TRUE
    /\ storeState \in {"up", "down"}
    /\ store = <<>>
    /\ instance = 0
    /\ mgrConn = <<>>
    /\ svc = NoService
    /\ pc = [t \in Threads |-> "idle"]
    /\ req = NoRequest
    /\ source = "unknown"
    /\ outcome = NoOutcome
    /\ http = 0
    /\ trace = NoRace
    /\ redis = <<>>
    /\ redisUp = TRUE
    /\ ret = [t \in Threads |-> NotHanded]
    /\ lastWrite = <<>>

RaceNext ==
    \/ \E t \in Threads : Enter(t)
    \/ \E t \in Threads : CheckInstance(t)
    \/ \E t \in Threads : Construct(t)
    \/ \E t \in Threads : ConnectInstance(t)
    \/ \E t \in Threads : ReturnInstance(t)
    \/ \E st \in {"up", "down"} : StoreChange(st)

RaceSpec == RaceInit /\ [][RaceNext]_vars

\* C34: get_instance calls that run concurrently while no instance exists
\* create at most one manager and one store connection (one more manager only
\* after an initialisation that failed), and the callers that are handed a
\* manager are all handed the same one.
C34_ConcurrentCallsShareOne ==
    /\ trace.built <= trace.failed + 1
    /\ trace.opened <= 1
    /\ \A t, u \in Threads :
          (ret[t].done /\ ret[u].done /\ ret[t].manager # 0
           /\ ret[u].manager # 0) => ret[t].manager = ret[u].manager

-----------------------------------------------------------------------------
(* VectorSearchService.get_product_detail *)

\* what cache_manager.get_product_with_cache(pos) may do: raise, return
\* nothing (None or an empty record), or return the record
GetProductWithCache(pos) ==
    {[kind |-> "raise"], [kind |-> "nothing"], [kind |-> "record"]}

\* the record of position pos, and where it was read
Detail(pos, origin) == [found |-> TRUE, pos |-> pos, row |-> ProductRow(pos), origin |-> origin]
Absent == [found |-> FALSE, pos |-> 0, row |-> <<>>, origin |-> "none"]

\* (a slip: a failure of the store lookup is passed on to the caller)
StoreDetailRaising(conn, t, pos) ==
    IF ~POSTGRES_AVAILABLE
    THEN [raised |-> FALSE, value |-> Absent, conn |-> conn, connects |-> 0, queries |-> 0]
    ELSE LET c == ConnectPostgres(conn) IN
         IF c.raised
         THEN [raised |-> TRUE, value |-> Absent, conn |-> c.conn,
               connects |-> c.connects, queries |-> 0]
         ELSE IF storeState # "up"
         THEN [raised |-> TRUE, value |-> Absent, conn |-> c.conn,
               connects |-> c.connects, queries |-> 1]
         ELSE [raised |-> FALSE,
               value |-> IF HasProductRow(t, pos) THEN Detail(pos, "store") ELSE Absent,
               conn |-> c.conn, connects |-> c.connects, queries |-> 1]

\* lines 179-198: None without psycopg2; otherwise connect and SELECT the row
\* of products3, every exception on the way being logged and answered None
StoreDetail(conn, t, pos) ==
    IF ~POSTGRES_AVAILABLE
    THEN [raised |-> FALSE, value |-> Absent, conn |-> conn, connects |-> 0, queries |-> 0]
    ELSE LET c == ConnectPostgres(conn) IN
         IF c.raised
         THEN [raised |-> FALSE, value |-> Absent, conn |-> c.conn,
               connects |-> c.connects, queries |-> 0]
         ELSE IF storeState # "up"
         THEN [raised |-> FALSE, value |-> Absent, conn |-> c.conn,
               connects |-> c.connects, queries |-> 1]
         ELSE [raised |-> FALSE,
               value |-> IF HasProductRow(t, pos) THEN Detail(pos, "store") ELSE Absent,
               conn |-> c.conn, connects |-> c.connects, queries |-> 1]

\* get_product_detail(pos, use_cache) of service s, the cache call doing c
GetProductDetail(s, t, pos, use_cache, c) ==
    IF use_cache /\ s.cache_manager # "none" /\ c.kind = "record"
    THEN [raised |-> FALSE, value |-> Detail(pos, "cache"), conn |-> s.postgres_conn,
          connects |-> 0, queries |-> 0, cache |-> c.kind]
    ELSE StoreDetail(s.postgres_conn, t, pos)
         @@ [cache |-> IF use_cache /\ s.cache_manager # "none" THEN c.kind ELSE "skipped"]

\* VectorSearchService(): the service takes the manager get_instance hands out
NewService ==
    /\ ret = NoRet
    /\ svc' = [cache_manager |-> GetInstance.manager, postgres_conn |-> "none"]
    /\ instance' = GetInstance.instance
    /\ mgrConn' = GetInstance.conn
    /\ UNCHANGED <<envVars, storeState, store, pc, req, source, outcome, http, trace,
                   cacheVars>>

DoGetProductDetail(pos, use_cache) ==
    /\ ret = NoRet
    /\ \E c \in GetProductWithCache(pos) :
         LET r == GetProductDetail(svc, store, pos, use_cache, c)
         IN /\ ret' = [op |-> "get_product_detail", pos |-> pos, use_cache |-> use_cache,
                       configured |-> svc.cache_manager # "none"] @@ r
            /\ svc' = [svc EXCEPT !.postgres_conn = r.conn]
    /\ UNCHANGED <<envVars, storeState, store, instance, mgrConn, pc, req, source, outcome,
                   http, trace, redis, redisUp, lastWrite>>

DetailReturn ==
    /\ ret # NoRet
    /\ ret' = NoRet
    /\ UNCHANGED <<envVars, searchVars, redis, redisUp, lastWrite>>

\* the durable store becomes unreachable, reachable, or fails its queries
DetailStoreChange ==
    /\ ret = NoRet
    /\ \E st \in StoreStates : StoreChange(st)

DetailInit ==
    /\ POSTGRES_AVAILABLE \in BOOLEAN
    /\ POSTGRES_URL \in {"", "placeholder", "real"}
    /\ CACHE_ENABLED \in BOOLEAN
    /\ storeState \in StoreStates
    /\ store \in WarmCatalogs
    /\ instance = "none"
    /\ mgrConn = "none"
    /\ svc = NoService
    /\ pc = "idle"
    /\ req = NoRequest
    /\ source = "unknown"
    /\ outcome = NoOutcome
    /\ http = 0
    /\ trace = NoTrace
    /\ redis = <<>>
    /\ redisUp = TRUE
    /\ ret = NoRet
    /\ lastWrite = <<>>

DetailNext ==
    \/ NewService
    \/ \E pos \in 1..MaxIds, use_cache \in BOOLEAN : DoGetProductDetail(pos, use_cache)
    \/ DetailReturn
    \/ DetailStoreChange

DetailSpec == DetailInit /\ [][DetailNext]_vars

\* C24: get_product_detail never raises; it asks the cache first when caching
\* is requested and configured, and a record the cache returns is the answer
\* without a store call; otherwise the answer is the row of the store, or absent
\* when there is no row or the store cannot be read.
C24_DetailRecordOrAbsent ==
    ret.op = "get_product_detail" =>
        /\ ~ret.raised
        /\ ret.value = Absent \/ (ret.value.found /\ ret.value.pos = ret.pos)
        /\ (ret.cache # "skipped") = (ret.use_cache /\ ret.configured)
        /\ ret.cache = "record" =>
              (ret.value.origin = "cache" /\ ret.queries = 0 /\ ret.connects = 0)
        /\ ret.cache # "record" =>
              ret.value.found =
                 (/\ POSTGRES_AVAILABLE
                  /\ POSTGRES_URL = "real"
                  /\ storeState = "up"
                  /\ HasProductRow(store, ret.pos))

C24_Witness ==
    /\ ret.op = "get_product_detail"
    /\ ret.cache = "raise"
    /\ storeState = "down"
    /\ ret.connects = 1
    /\ ret.value = Absent

-----------------------------------------------------------------------------
(* search_similar_products called by another caller than the route *)

\* vector_service.search_similar_products(query_vector, limit, use_cache) on a
\* new service: nothing on the way looks at the vector
ServiceSearch(n, c, limit, use_cache) ==
    /\ pc = "idle"
    /\ trace' = NoTrace
    /\ outcome' = NoOutcome
    /\ LET g == GetInstance
       IN /\ instance' = g.instance
          /\ mgrConn' = g.conn
          /\ svc' = [cache_manager |-> g.manager, postgres_conn |-> "none"]
          /\ req' = [query_vector |-> QueryVector(n, c), limit |-> limit,
                     use_cache |-> use_cache]
          /\ source' = "unknown"
          /\ http' = 0
          /\ pc' = IF UseCacheLayer(use_cache, g.manager)
                   THEN "attempt_cache" ELSE "fallback_store"
    /\ UNCHANGED <<envVars, storeState, store, cacheVars>>

\* the caller drops the service
ServiceDone ==
    /\ pc = "returned"
    /\ svc' = NoService
    /\ req' = NoRequest
    /\ source' = "unknown"
    /\ outcome' = NoOutcome
    /\ trace' = NoTrace
    /\ pc' = "idle"
    /\ UNCHANGED <<envVars, storeState, store, instance, mgrConn, http, cacheVars>>

ServiceNext ==
    \/ \E n \in QueryLengths, c \in Fills, limit \in 1..MaxLimit, u \in BOOLEAN :
          ServiceSearch(n, c, limit, u)
    \/ AttemptCache
    \/ \E a \in PosSeqs(MaxPos) : FallbackStore(a)
    \/ ServiceDone
    \/ \E st \in StoreStates : StoreChange(st)

ServiceSpec == Init /\ [][ServiceNext]_vars

\* C26: search_similar_products called with a vector that has not 1024
\* components runs no distance query on the store and fails with an error.
C26_WrongDimensionFailsLoudly ==
    (Returned /\ req.query_vector.len # VectorDim) =>
        /\ trace.store_queries = 0
        /\ outcome.has_error

\* the call asked for the cache and the service holds a manager
CacheWanted == req.use_cache /\ svc.cache_manager # "none"

\* C31: search_similar_products invokes the cache layer only when the call
\* asked for caching and a cache manager is configured; otherwise no cache call
\* is made, the query goes to the store once, and the source of the outcome is
\* postgres or error.
C31_CacheOnlyWhenWanted ==
    /\ (pc = "attempt_cache" \/ trace.cache_calls > 0) => CacheWanted
    /\ (Returned /\ ~CacheWanted) =>
          /\ trace.cache_calls = 0
          /\ trace.cache_result = "none"
          /\ trace.fallback_calls = 1
          /\ outcome.source \in {"postgres", "error"}

C31_Witness ==
    /\ Returned
    /\ ~req.use_cache
    /\ svc.cache_manager = "manager"
    /\ trace.cache_calls = 0
    /\ trace.fallback_calls = 1
    /\ outcome.source = "postgres"
    /\ Len(outcome.results) > 0

\* C33: search_similar_products never raises: whatever the cache and the
\* store do (the cache raising, the store unreachable or failing its query),
\* the call ends with a dictionary, whose result_count is the number of its
\* results, whose results are empty when the source is "error" and non-empty
\* when the source is "cache".
C33_OutcomeWellFormed ==
    /\ pc \in {"attempt_cache", "fallback_store"} => outcome = NoOutcome
    /\ Returned =>
          /\ outcome.source # "none"
          /\ outcome.result_count = Len(outcome.results)
          /\ outcome.source = "error" => outcome.results = <<>>
          /\ outcome.has_error => outcome.source = "error"
          /\ outcome.source = "cache" => Len(outcome.results) > 0

C33_Witness ==
    /\ Returned
    /\ trace.cache_result = "raised"
    /\ trace.store_seen = "query_fails"
    /\ trace.store_queries = 1
    /\ outcome.result_count = 0
    /\ outcome.results = <<>>
    /\ outcome.source = "cache_error_fallback"

-----------------------------------------------------------------------------
(* The recommendation endpoints: recommend_from_upload, recommend_from_fitting *)

Casual == <<"c", "a", "s", "u", "a", "l">>
Everyday == <<"e", "v", "e", "r", "y", "d", "a", "y">>
Relaxed == <<"r", "e", "l", "a", "x", "e", "d">>
Basic == <<"b", "a", "s", "i", "c">>
SlotWord ==
    [top |-> <<"t", "o", "p">>, pants |-> <<"p", "a", "n", "t", "s">>,
     shoes |-> <<"s", "h", "o", "e", "s">>]

\* (opts.maxPerCategory or 3), and the factor of the candidate lists
DefaultPerCategory == 3
CandidateFactor == 4

\* what azure_openai_service returns when it answers
AiAnalysis == ("tags" :> ListValue(<<Basic>>))

\* lines 89-95: the profile built when there is no analysis
UploadFallbackProfile(rq) ==
    [k \in (IF rq.person THEN {"overall_style"} ELSE {}) \cup rq.clothingItems |->
        IF k = "overall_style" THEN ListValue(<<Casual, Everyday>>)
        ELSE ListValue(<<SlotWord[k], Basic, Casual>>)]

\* line 161
FittingDefaultProfile ==
    ("overall_style" :> ListValue(<<Casual, Relaxed>>))
    @@ ("categories" :> ListValue(<<SlotWord["top"], SlotWord["pants"], SlotWord["shoes"]>>))

\* lines 80-95 and 160-167: the analysis of the external service when it is
\* available and answers; the fallback profile when it is not available and
\* when the call raises
AnalyzeStyle(rq, azure) ==
    IF rq.endpoint = "upload"
    THEN IF azure = "unavailable"
         THEN [raised |-> FALSE, analysis |-> UploadFallbackProfile(rq), method |-> "fallback"]
         ELSE IF azure = "raises"
         THEN [raised |-> FALSE, analysis |-> UploadFallbackProfile(rq), method |-> "fallback"]
         ELSE [raised |-> FALSE, analysis |-> AiAnalysis, method |-> "ai"]
    ELSE IF azure = "unavailable" \/ ~rq.generatedImage
         THEN [raised |-> FALSE, analysis |-> FittingDefaultProfile, method |-> "fallback"]
         ELSE IF azure = "raises"
         THEN [raised |-> FALSE, analysis |-> FittingDefaultProfile, method |-> "fallback"]
         ELSE [raised |-> FALSE, analysis |-> AiAnalysis, method |-> "ai"]

\* max_k, and the max_per_category the candidates are asked with
MaxKOf(rq) ==
    IF rq.has_options /\ rq.maxPerCategory # 0 THEN rq.maxPerCategory ELSE DefaultPerCategory
CandidateMax(rq) ==
    IF rq.has_options THEN MaxKOf(rq) * CandidateFactor ELSE DefaultPerCategory * CandidateFactor

\* the ids of the items of a list
IdsOf(items) == [i \in 1..Len(items) |-> items[i].rec.id]

\* candidate_recs[cat][:max_k]
TopK(items, k) == SubSeq(items, 1, Min(k, Len(items)))

\* what llm_ranker.rerank gives for a category when it answers with ids: the
\* candidates the other way round, top_k of them
RerankIds(items, k) == TopK([i \in 1..Len(items) |-> items[Len(items) + 1 - i].rec.id], k)

\* the answers of llm_ranker.rerank that hold ids
IdAnswers == {"ids", "long", "twice", "foreign", "partial"}

\* ids.get(cat, []) for the answers the re-ranker may give: top_k ids of the
\* category ("ids"), all its candidates and so more than top_k ("long"), an id
\* twice ("twice"), an id that is no candidate in front ("foreign": 0, which
\* no product has), or ids for the category top alone ("partial")
RankerIds(ranker, items, cat, k) ==
    CASE ranker = "long" -> RerankIds(items, Len(items))
      [] ranker = "twice" ->
            IF items = <<>> THEN <<>> ELSE <<items[1].rec.id>> \o RerankIds(items, k)
      [] ranker = "foreign" -> <<0>> \o RerankIds(items, k)
      [] ranker = "partial" -> IF cat = SlotWord["top"] THEN RerankIds(items, k) ELSE <<>>
      [] OTHER -> RerankIds(items, k)

\* the items of ids, in the order of ids, then the candidates not yet taken
\* until max_k are there
RECURSIVE FillUp(_, _, _)
FillUp(taken, items, k) ==
    IF items = <<>> \/ Len(taken) >= k THEN taken
    ELSE IF \E i \in 1..Len(taken) : taken[i] = Head(items)
    THEN FillUp(taken, Tail(items), k)
    ELSE FillUp(Append(taken, Head(items)), Tail(items), k)

\* for _id in ids.get(cat, []): if _id in idx: recs[cat].append(idx[_id])
RECURSIVE Picked(_, _)
Picked(items, ids) ==
    IF ids = <<>> THEN <<>>
    ELSE LET found == {j \in 1..Len(items) : items[j].rec.id = Head(ids)}
         IN IF found = {} THEN Picked(items, Tail(ids))
            ELSE <<items[CHOOSE j \in found : \A l \in found : l <= j]>>
                 \o Picked(items, Tail(ids))

Reordered(items, ids, k) == FillUp(Picked(items, ids), items, k)

\* lines 113-138 and 183-203: the re-ranker is asked when the request, or the
\* availability of the re-ranker when the request does not say, wants it and
\* the re-ranker is available; the call is not guarded
Rerank(rq, ranker, candidates) ==
    LET k == MaxKOf(rq)
        available == ranker # "unavailable"
        use_llm == IF rq.useLLMRerank = "unset" THEN available
                   ELSE rq.useLLMRerank = "yes"
    IN IF use_llm /\ available
       THEN IF ranker = "raises"
            THEN [raised |-> TRUE, recs |-> <<>>]
            ELSE IF ranker \in IdAnswers
            THEN [raised |-> FALSE,
                  recs |-> [cat \in DOMAIN candidates |->
                              Reordered(candidates[cat],
                                        RankerIds(ranker, candidates[cat], cat, k), k)]]
            ELSE [raised |-> FALSE,
                  recs |-> [cat \in DOMAIN candidates |-> TopK(candidates[cat], k)]]
       ELSE [raised |-> FALSE,
             recs |-> [cat \in DOMAIN candidates |-> TopK(candidates[cat], k)]]

\* the categories of CategoryRecommendations
ShownCategories == ConfigCategories \ {<<"o", "u", "t", "e", "r">>}

NoResponse ==
    [status |-> 0, method |-> "none", styleAnalysis |-> <<>>, recs |-> <<>>,
     candidates |-> <<>>]

\* the response of the endpoint: 503 without catalog, 500 for what the handler
\* lets through
Recommend(state, catalog, rq, azure, ranker) ==
    LET a == AnalyzeStyle(rq, azure)
        snapshot == IndexProducts(state, catalog)
    IN IF a.raised THEN [NoResponse EXCEPT !.status = 500]
       ELSE IF snapshot.raised THEN [NoResponse EXCEPT !.status = 503]
       ELSE LET candidates ==
                   FindSimilar(snapshot.products,
                               [analysis |-> a.analysis,
                                max_per_category |-> CandidateMax(rq),
                                include_score |-> TRUE, min_price |-> NoBound,
                                max_price |-> NoBound, exclude_tags |-> <<>>])
                r == Rerank(rq, ranker, candidates)
            IN IF r.raised THEN [NoResponse EXCEPT !.status = 500]
               ELSE [status |-> 200, method |-> a.method,
                     styleAnalysis |-> IF a.method = "ai" THEN a.analysis ELSE <<>>,
                     recs |-> [cat \in ShownCategories |-> IdsOf(r.recs[cat])],
                     candidates |-> [cat \in ShownCategories |-> IdsOf(candidates[cat])]]

Word(w, cat, id) == Product(id, w, <<>>, cat, 1, <<>>)

\* the catalog the endpoints recommend from
RecCatalogs ==
    {<<Word(Casual \o <<" ">> \o SlotWord["top"], SlotWord["top"], 1),
       Word(Basic \o <<" ">> \o SlotWord["top"], SlotWord["top"], 2),
       Word(Relaxed \o <<" ">> \o Basic, SlotWord["top"], 3),
       Word(Casual, SlotWord["pants"], 4),
       Word(Basic \o <<" ">> \o SlotWord["shoes"], SlotWord["shoes"], 5)>>,
     <<Word(Basic, SlotWord["top"], 1), Word(Casual, SlotWord["top"], 2)>>}

RecRequests ==
    [endpoint : {"upload", "fitting"}, person : BOOLEAN,
     clothingItems : {{}, {"top"}, {"top", "pants", "shoes"}},
     generatedImage : BOOLEAN, has_options : BOOLEAN, maxPerCategory : 0..MaxK,
     useLLMRerank : {"unset", "yes", "no"}]

AzureStates == {"unavailable", "ok", "raises"}
RankerStates == {"unavailable", "none", "raises"} \cup IdAnswers

\* one request to POST /api/recommend or POST /api/recommend/from-fitting
DoRecommend(rq) ==
    /\ ret = NoRet
    /\ rq.endpoint = "upload" => ~rq.generatedImage
    /\ rq.endpoint = "fitting" => (~rq.person /\ rq.clothingItems = {})
    /\ ~rq.has_options => (rq.maxPerCategory = 0 /\ rq.useLLMRerank = "unset")
    /\ \E azure \in AzureStates, ranker \in RankerStates :
          ret' = [op |-> "recommend", rq |-> rq, azure |-> azure, ranker |-> ranker,
                  response |-> Recommend(storeState, store, rq, azure, ranker)]
    /\ UNCHANGED <<envVars, searchVars, redis, redisUp, lastWrite>>

RecommendReturn ==
    /\ ret # NoRet
    /\ ret' = NoRet
    /\ UNCHANGED <<envVars, searchVars, redis, redisUp, lastWrite>>

RecCatalogChange ==
    /\ ret = NoRet
    /\ \/ /\ store' \in RecCatalogs \ {store}
          /\ UNCHANGED storeState
       \/ /\ storeState' = IF storeState = "up" THEN "down" ELSE "up"
          /\ UNCHANGED store
    /\ UNCHANGED <<envVars, instance, mgrConn, svc, pc, req, source, outcome, http,
                   trace, cacheVars>>

RecInit ==
    /\ POSTGRES_AVAILABLE = TRUE
    /\ POSTGRES_URL = "real"
    /\ CACHE_ENABLED = FALSE
    /\ storeState = "up"
    /\ store \in RecCatalogs
    /\ instance = "none"
    /\ mgrConn = "none"
    /\ svc = NoService
    /\ pc = "idle"
    /\ req = NoRequest
    /\ source = "unknown"
    /\ outcome = NoOutcome
    /\ http = 0
    /\ trace = NoTrace
    /\ redis = <<>>
    /\ redisUp = TRUE
    /\ ret = NoRet
    /\ lastWrite = <<>>

RecNext ==
    \/ \E rq \in RecRequests : DoRecommend(rq)
    \/ RecommendReturn
    \/ RecCatalogChange

RecSpec == RecInit /\ [][RecNext]_vars

\* C28: a request during which the style analysis or the re-ranker raises is
\* answered as the same request with that service unavailable: not a failure,
\* and the fallback profile, respectively the first max_k candidates.
C28_FailureAsUnavailable ==
    (ret.op = "recommend" /\ storeState = "up") =>
        /\ ret.azure = "raises" =>
              ret.response = Recommend(storeState, store, ret.rq, "unavailable", ret.ranker)
        /\ ret.ranker = "raises" =>
              /\ ret.response.status = 200
              /\ ret.response = Recommend(storeState, store, ret.rq, ret.azure, "unavailable")

\* C36: whatever the re-ranker answers (more than top_k ids, an id twice, ids
\* that are no candidates, categories left out), each category of the
\* recommendations holds at most maxPerCategory items, none twice, and only
\* candidates of that category.
C36_RerankedWithinBounds ==
    (ret.op = "recommend" /\ ret.response.status = 200) =>
        \A cat \in ShownCategories :
            LET shown == ret.response.recs[cat]
                cands == ret.response.candidates[cat]
            IN /\ Len(shown) <= MaxKOf(ret.rq)
               /\ \A i, j \in 1..Len(shown) : i # j => shown[i] # shown[j]
               /\ \A i \in 1..Len(shown) : \E j \in 1..Len(cands) : shown[i] = cands[j]

====
